---- MODULE Spec2Model ----
(***************************************************************************)
(* Model of the smartcomplete completion pipeline: the response cache      *)
(* (cache.go), the per-project rate limiter (ratelimit.go), the cursor     *)
(* split of the context gatherer (context.go) and the orchestration in     *)
(* CompletionService.Complete (completion.go).                             *)
(*                                                                         *)
(* Strings are sequences of one-character tokens; NL stands for "\n".      *)
(* Time is counted in ticks; Minute and Hour are time.Minute and time.Hour *)
(* expressed in ticks (scaled, only their order and the comparisons the    *)
(* code makes with them matter).  CacheCeiling is the literal 1000 of      *)
(* Cache.Put scaled down so that the ceiling is reachable.                 *)
(***************************************************************************)
EXTENDS Integers, Sequences, FiniteSets, TLC

VARIABLES now, cfg, entries, heap, requestCounts, hist, files, procs, last, split,
          asm, locks, gather

vars == <<now, cfg, entries, heap, requestCounts, hist, files, procs, last, split,
          asm, locks, gather>>

NL == "NL"

(* ---------------------------- bounds ----------------------------------- *)
MaxNow == 7
MaxCacheNow == 3
MaxServiceNow == 2
MaxTTL == 1
MaxPerMin == 2
MaxPerHour == 3
MaxResp == 2
MaxLen == 4
MaxCursor == 3

(* ----------------------- program constants ------------------------------ *)
Minute == 2
Hour == 5
CacheCeiling == 1

(* ------------------------- string helpers ------------------------------- *)
RECURSIVE SplitFrom(_, _, _, _)
SplitFrom(s, sep, i, cur) ==
  IF i > Len(s) THEN <<cur>>
  ELSE IF s[i] = sep THEN <<cur>> \o SplitFrom(s, sep, i + 1, <<>>)
  ELSE SplitFrom(s, sep, i + 1, Append(cur, s[i]))

\* strings.Split(s, sep) for a one-character separator
StringsSplit(s, sep) == SplitFrom(s, sep, 1, <<>>)

\* strings.Join(elems, sep) for a separator of any length
RECURSIVE JoinWith(_, _)
JoinWith(elems, sep) ==
  IF Len(elems) = 0 THEN <<>>
  ELSE IF Len(elems) = 1 THEN elems[1]
  ELSE elems[1] \o sep \o JoinWith(Tail(elems), sep)

RECURSIVE StringsJoin(_, _)
StringsJoin(elems, sep) ==
  IF Len(elems) = 0 THEN <<>>
  ELSE IF Len(elems) = 1 THEN elems[1]
  ELSE elems[1] \o <<sep>> \o StringsJoin(Tail(elems), sep)

\* s[i:] and s[:i] of Go, i counted from 0
SliceFrom(s, i) == SubSeq(s, i + 1, Len(s))
SliceTo(s, i) == SubSeq(s, 1, i)

EmptyMap == [k \in {} |-> 0]
MapPut(m, k, v) == [x \in DOMAIN m \cup {k} |-> IF x = k THEN v ELSE m[x]]
MapDel(m, k) == [x \in DOMAIN m \ {k} |-> m[x]]

(* --------------------------- path helpers ------------------------------- *)
Dot == <<".">>
DotDot == <<".", ".">>

\* filepath.IsAbs on a Unix path
IsAbs(p) == Len(p) > 0 /\ p[1] = "/"

RECURSIVE CleanStack(_, _, _)
CleanStack(comps, rooted, out) ==
  IF Len(comps) = 0 THEN out
  ELSE LET c == Head(comps)
           rest == Tail(comps)
       IN IF c = <<>> \/ c = Dot THEN CleanStack(rest, rooted, out)
          ELSE IF c = DotDot
               THEN IF Len(out) > 0 /\ out[Len(out)] # DotDot
                    THEN CleanStack(rest, rooted, SubSeq(out, 1, Len(out) - 1))
                    ELSE IF rooted THEN CleanStack(rest, rooted, out)
                    ELSE CleanStack(rest, rooted, Append(out, c))
               ELSE CleanStack(rest, rooted, Append(out, c))

\* filepath.Clean on a Unix path
Clean(p) ==
  IF p = <<>> THEN Dot
  ELSE LET rooted == IsAbs(p)
           body == StringsJoin(CleanStack(StringsSplit(p, "/"), rooted, <<>>), "/")
       IN IF rooted THEN <<"/">> \o body
          ELSE IF body = <<>> THEN Dot ELSE body

\* filepath.Join(a, b): empty elements are ignored, the result is cleaned
PathJoin(a, b) ==
  IF a = <<>> /\ b = <<>> THEN <<>>
  ELSE IF a = <<>> THEN Clean(b)
  ELSE IF b = <<>> THEN Clean(a)
  ELSE Clean(a \o <<"/">> \o b)

\* the index of the last "/" of p, 0 when there is none
LastSlash(p) ==
  LET is == {i \in 1..Len(p) : p[i] = "/"}
  IN IF is = {} THEN 0 ELSE CHOOSE i \in is : \A j \in is : j <= i

\* filepath.Dir on a Unix path: all but the last element, cleaned
Dir(p) == Clean(SubSeq(p, 1, LastSlash(p)))

resolveFilePath(baseDir, filePath) ==
  IF IsAbs(filePath) THEN filePath ELSE PathJoin(baseDir, filePath)

(* ------------------------------ cache ----------------------------------- *)
\* %d of a small integer
Itoa(n) == IF n < 0 THEN <<"-", ToString(0 - n)>> ELSE <<ToString(n)>>

\* a key in which the auxiliary fields take part
cacheKeyWithAuxiliary(req) ==
  req.ProjectID \o <<":">> \o req.FilePath \o <<":">> \o Itoa(req.CursorLine)
    \o <<":">> \o Itoa(req.CursorColumn) \o <<":">> \o req.LLM
    \o <<":">> \o Itoa(req.MaxTokens + Len(req.ContextFiles) + req.Temperature)

\* fmt.Sprintf("%s:%s:%d:%d:%s", ...)
cacheKey(req) ==
  req.ProjectID \o <<":">> \o req.FilePath \o <<":">> \o Itoa(req.CursorLine)
    \o <<":">> \o Itoa(req.CursorColumn) \o <<":">> \o req.LLM

\* the hex SHA-256 digest of the content: distinct contents have distinct
\* digests (collision resistance), and a digest is not the content itself
hashContent(content) == <<"sha256", content>>

NoResp == 0

\* Cache.Get with the expiry test written >= (an entry aged exactly TTL is dropped)
CacheGetExpiresEarly(ents, enabled, ttl, t, req, fileContent) ==
  IF ~enabled THEN [resp |-> NoResp, ok |-> FALSE]
  ELSE LET key == cacheKey(req)
       IN IF key \notin DOMAIN ents THEN [resp |-> NoResp, ok |-> FALSE]
          ELSE IF t - ents[key].CreatedAt >= ttl THEN [resp |-> NoResp, ok |-> FALSE]
          ELSE IF ents[key].FileHash # hashContent(fileContent)
               THEN [resp |-> NoResp, ok |-> FALSE]
          ELSE [resp |-> ents[key].Response, ok |-> TRUE]

\* Cache.Get without the file-changed test
CacheGetNoHashCheck(ents, enabled, ttl, t, req, fileContent) ==
  IF ~enabled THEN [resp |-> NoResp, ok |-> FALSE]
  ELSE LET key == cacheKey(req)
       IN IF key \notin DOMAIN ents THEN [resp |-> NoResp, ok |-> FALSE]
          ELSE IF t - ents[key].CreatedAt > ttl THEN [resp |-> NoResp, ok |-> FALSE]
          ELSE [resp |-> ents[key].Response, ok |-> TRUE]

\* Cache.Get without the expiry test
CacheGetNoExpiry(ents, enabled, ttl, t, req, fileContent) ==
  IF ~enabled THEN [resp |-> NoResp, ok |-> FALSE]
  ELSE LET key == cacheKey(req)
       IN IF key \notin DOMAIN ents THEN [resp |-> NoResp, ok |-> FALSE]
          ELSE IF ents[key].FileHash # hashContent(fileContent)
               THEN [resp |-> NoResp, ok |-> FALSE]
          ELSE [resp |-> ents[key].Response, ok |-> TRUE]

\* Cache.Get: the pair (response pointer, ok)
CacheGet(ents, enabled, ttl, t, req, fileContent) ==
  IF ~enabled THEN [resp |-> NoResp, ok |-> FALSE]
  ELSE LET key == cacheKey(req)
       IN IF key \notin DOMAIN ents THEN [resp |-> NoResp, ok |-> FALSE]
          ELSE IF t - ents[key].CreatedAt > ttl THEN [resp |-> NoResp, ok |-> FALSE]
          ELSE IF ents[key].FileHash # hashContent(fileContent)
               THEN [resp |-> NoResp, ok |-> FALSE]
          ELSE [resp |-> ents[key].Response, ok |-> TRUE]

\* the keys the eviction scan of Cache.Put can select: the scan keeps the
\* first entry it meets with the smallest CreatedAt, and the iteration order
\* of a Go map is unspecified
OldestKeysNewest(ents) ==
  {k \in DOMAIN ents : \A j \in DOMAIN ents : ents[k].CreatedAt >= ents[j].CreatedAt}

OldestKeys(ents) ==
  {k \in DOMAIN ents : \A j \in DOMAIN ents : ents[k].CreatedAt <= ents[j].CreatedAt}

\* a Put that never evicts
EvictCandidatesNone(ents) == {ents}

EvictCandidates(ents) ==
  IF Cardinality(DOMAIN ents) > CacheCeiling
  THEN {MapDel(ents, k) : k \in OldestKeys(ents)}
  ELSE {ents}

\* a Put that writes the result into an existing entry and keeps the
\* fingerprint that entry had
CachePutKeepsHash(ents, enabled, t, req, fileContent, resp) ==
  IF ~enabled THEN {ents}
  ELSE {MapPut(e, cacheKey(req),
               [Response |-> resp, CreatedAt |-> t,
                FileHash |-> IF cacheKey(req) \in DOMAIN e THEN e[cacheKey(req)].FileHash
                             ELSE hashContent(fileContent)])
        : e \in EvictCandidates(ents)}

\* Cache.Put: the set of entry maps the call can leave
CachePut(ents, enabled, t, req, fileContent, resp) ==
  IF ~enabled THEN {ents}
  ELSE {MapPut(e, cacheKey(req),
               [Response |-> resp, CreatedAt |-> t, FileHash |-> hashContent(fileContent)])
        : e \in EvictCandidates(ents)}

(* --------------------------- rate limiter ------------------------------- *)
\* the counter CheckLimit works on: the stored one, or a fresh one
LookupCount(counts, projectID, t) ==
  IF projectID \in DOMAIN counts THEN counts[projectID]
  ELSE [Minute |-> 0, Hour |-> 0, LastMinuteReset |-> t, LastHourReset |-> t]

\* the short window reset only once more than its length has elapsed
ResetMinuteWindowStrict(c, t) ==
  IF t - c.LastMinuteReset > Minute
  THEN [c EXCEPT !.Minute = 0, !.LastMinuteReset = t] ELSE c

\* the short window reset at every call
ResetMinuteWindowAlways(c, t) == [c EXCEPT !.Minute = 0, !.LastMinuteReset = t]

ResetMinuteWindow(c, t) ==
  IF t - c.LastMinuteReset >= Minute
  THEN [c EXCEPT !.Minute = 0, !.LastMinuteReset = t] ELSE c

ResetHourWindow(c, t) ==
  IF t - c.LastHourReset >= Hour
  THEN [c EXCEPT !.Hour = 0, !.LastHourReset = t] ELSE c

IncrementCounters(c) == [c EXCEPT !.Minute = @ + 1, !.Hour = @ + 1]

\* CheckLimit with the thresholds compared by > (one call too many passes)
CheckLimitOffByOne(counts, projectID, maxPerMin, maxPerHour, t) ==
  LET c0 == LookupCount(counts, projectID, t)
      c1 == ResetHourWindow(ResetMinuteWindow(c0, t), t)
  IN IF c1.Minute > maxPerMin
     THEN [err |-> "RATE_LIMIT", msg |-> "per-minute", counts |-> MapPut(counts, projectID, c1)]
     ELSE IF c1.Hour > maxPerHour
     THEN [err |-> "RATE_LIMIT", msg |-> "per-hour", counts |-> MapPut(counts, projectID, c1)]
     ELSE [err |-> "", msg |-> "",
           counts |-> MapPut(counts, projectID, IncrementCounters(c1))]

\* CheckLimit that counts the call in the short window before the long
\* window is checked
CheckLimitCountsEarly(counts, projectID, maxPerMin, maxPerHour, t) ==
  LET c0 == LookupCount(counts, projectID, t)
      c1 == ResetHourWindow(ResetMinuteWindow(c0, t), t)
  IN IF c1.Minute >= maxPerMin
     THEN [err |-> "RATE_LIMIT", msg |-> "per-minute", counts |-> MapPut(counts, projectID, c1)]
     ELSE IF c1.Hour >= maxPerHour
     THEN [err |-> "RATE_LIMIT", msg |-> "per-hour",
           counts |-> MapPut(counts, projectID, [c1 EXCEPT !.Minute = @ + 1])]
     ELSE [err |-> "", msg |-> "",
           counts |-> MapPut(counts, projectID, IncrementCounters(c1))]

\* RateLimiter.CheckLimit: the error ("" for nil) and the counter map left
CheckLimit(counts, projectID, maxPerMin, maxPerHour, t) ==
  LET c0 == LookupCount(counts, projectID, t)
      c1 == ResetHourWindow(ResetMinuteWindow(c0, t), t)
  IN IF c1.Minute >= maxPerMin
     THEN [err |-> "RATE_LIMIT", msg |-> "per-minute", counts |-> MapPut(counts, projectID, c1)]
     ELSE IF c1.Hour >= maxPerHour
     THEN [err |-> "RATE_LIMIT", msg |-> "per-hour", counts |-> MapPut(counts, projectID, c1)]
     ELSE [err |-> "", msg |-> "",
           counts |-> MapPut(counts, projectID, IncrementCounters(c1))]

\* Reset that zeroes the counts but keeps the entry and its window starts
ResetLimitKeepsWindows(counts, projectID) ==
  IF projectID \in DOMAIN counts
  THEN [counts EXCEPT ![projectID].Minute = 0, ![projectID].Hour = 0]
  ELSE counts

\* a Reset that drops the counters of every tenant
ResetLimitEveryone(counts, projectID) == EmptyMap

\* RateLimiter.Reset
ResetLimit(counts, projectID) == MapDel(counts, projectID)

\* GetStats with a window still counted at the instant it has elapsed
GetStatsInclusive(counts, projectID, t) ==
  IF projectID \notin DOMAIN counts THEN [minuteCount |-> 0, hourCount |-> 0, ok |-> FALSE]
  ELSE LET c == counts[projectID]
       IN [minuteCount |-> IF t - c.LastMinuteReset <= Minute THEN c.Minute ELSE 0,
           hourCount |-> IF t - c.LastHourReset <= Hour THEN c.Hour ELSE 0,
           ok |-> TRUE]

\* RateLimiter.GetStats
GetStats(counts, projectID, t) ==
  IF projectID \notin DOMAIN counts THEN [minuteCount |-> 0, hourCount |-> 0, ok |-> FALSE]
  ELSE LET c == counts[projectID]
       IN [minuteCount |-> IF t - c.LastMinuteReset < Minute THEN c.Minute ELSE 0,
           hourCount |-> IF t - c.LastHourReset < Hour THEN c.Hour ELSE 0,
           ok |-> TRUE]

(* --------------------------- cursor split ------------------------------- *)
\* extractPrefixSuffix.  strings.Split returns a slice whose capacity equals
\* its length, so prefixLines = lines[:line] shares the backing array and
\* append(prefixLines, lines[line][:col]) stores into lines[line].
extractPrefixSuffix(content, line, col) ==
  LET lines0 == StringsSplit(content, NL)
      n == Len(lines0)
      l0 == IF line < 0 THEN 0 ELSE line
      l == IF l0 >= n THEN n - 1 ELSE l0
      c == IF col < 0 THEN 0 ELSE col
      inLine0 == l < n /\ c < Len(lines0[l + 1])
      prefixLines == IF inLine0 THEN Append(SliceTo(lines0, l), SliceTo(lines0[l + 1], c))
                     ELSE SliceTo(lines0, l)
      lines1 == IF inLine0 THEN [lines0 EXCEPT ![l + 1] = SliceTo(lines0[l + 1], c)]
                ELSE lines0
      inLine1 == l < n /\ c < Len(lines1[l + 1])
      cursorRest == IF inLine1 THEN <<SliceFrom(lines1[l + 1], c)>> ELSE <<>>
      following == IF l + 1 < n THEN SliceFrom(lines1, l + 1) ELSE <<>>
  IN [prefix |-> StringsJoin(prefixLines, NL),
      suffix |-> StringsJoin(cursorRest \o following, NL)]

(* ----------------------- requests and provider -------------------------- *)
MkReq(pid, path, line, col, llm) ==
  [ProjectID |-> pid, FilePath |-> path, CursorLine |-> line, CursorColumn |-> col,
   LLM |-> llm, MaxTokens |-> 0, ContextFiles |-> <<>>, Temperature |-> 0]

ProjP == <<"p">>
ProjQ == <<"q">>
ProjX == <<"x">>
FileA == <<"a">>
FileB == <<"b">>
DirR == <<"/", "r">>
DirS == <<"/", "s">>

\* requests that pass validation
GoodReqs ==
  {MkReq(ProjP, FileA, 0, 0, <<>>), MkReq(ProjP, <<".", "/", "a">>, 0, 0, <<>>)}

\* requests validation rejects: unauthorized path, path outside the root,
\* empty tenant, empty path, tenant unknown to the provider
BadReqs ==
  {MkReq(ProjP, FileB, 0, 0, <<>>), MkReq(ProjP, <<".", ".", "/", "s", "/", "b">>, 0, 0, <<>>),
   MkReq(<<>>, FileA, 0, 0, <<>>), MkReq(ProjP, <<>>, 0, 0, <<>>),
   MkReq(ProjX, FileA, 0, 0, <<>>)}

Reqs == GoodReqs \cup BadReqs
Tenants == {ProjP, ProjQ}

\* an in-memory ProjectGetter: projects p and q are known
GetProjectBaseDir(pid) ==
  IF pid = ProjP THEN [dir |-> DirR, err |-> ""]
  ELSE IF pid = ProjQ THEN [dir |-> DirS, err |-> ""]
  ELSE [dir |-> <<>>, err |-> "NOT_FOUND"]
GetProjectAuthorizedFiles(pid) ==
  IF pid = ProjP THEN [list |-> <<FileA>>, err |-> ""]
  ELSE IF pid = ProjQ THEN [list |-> <<DirS \o <<"/">> \o FileB>>, err |-> ""]
  ELSE [list |-> <<>>, err |-> "NOT_FOUND"]

Missing == <<"MISSING">>
ContentX == <<"x">>
ContentY == <<"x", NL, "y", "z">>
Contents == {ContentX, ContentY}
PathRA == DirR \o <<"/">> \o FileA
PathSB == DirS \o <<"/">> \o FileB
FilePaths == {PathRA, PathSB}

\* ProjectGetter.ReadFile against the file table
ReadFile(fs, path) ==
  IF path \in DOMAIN fs /\ fs[path] # Missing THEN [content |-> fs[path], err |-> ""]
  ELSE [content |-> <<>>, err |-> "NOT_FOUND"]

\* validateRequest without the authorized-files comparison
validateRequestNoAuthCheck(req) ==
  IF req.ProjectID = <<>> \/ req.FilePath = <<>> THEN "INVALID_REQUEST"
  ELSE LET auth == GetProjectAuthorizedFiles(req.ProjectID)
       IN IF auth.err # "" THEN auth.err ELSE ""

\* a validateRequest that looks the path up in the authorized list as it is
\* written, neither resolved nor normalized
validateRequestRaw(req) ==
  IF req.ProjectID = <<>> \/ req.FilePath = <<>> THEN "INVALID_REQUEST"
  ELSE LET auth == GetProjectAuthorizedFiles(req.ProjectID)
       IN IF auth.err # "" THEN auth.err
          ELSE IF \E i \in 1..Len(auth.list) : auth.list[i] = req.FilePath THEN ""
          ELSE "FILE_NOT_AUTHORIZED"

\* CompletionService.validateRequest: the error code, "" for nil
validateRequest(req) ==
  IF req.ProjectID = <<>> \/ req.FilePath = <<>> THEN "INVALID_REQUEST"
  ELSE LET auth == GetProjectAuthorizedFiles(req.ProjectID)
           baseDir == GetProjectBaseDir(req.ProjectID).dir
           targetPath == resolveFilePath(baseDir, req.FilePath)
       IN IF auth.err # "" THEN auth.err
          ELSE IF \E i \in 1..Len(auth.list) :
                    Clean(resolveFilePath(baseDir, auth.list[i])) = Clean(targetPath)
               THEN ""
          ELSE "FILE_NOT_AUTHORIZED"

(* ------------------------------ state ----------------------------------- *)
\* a CompletionResponse object on the heap; cache entries and callers hold
\* pointers (indices) to these
NewResponse(completion, model) ==
  [Completion |-> completion, Model |-> model, CachedResult |-> FALSE]

\* the record of the operation that ran last (what it was given, what it returned)
NoEv ==
  [op |-> "none", proc |-> 0, tenant |-> <<>>, req |-> MkReq(<<>>, <<>>, 0, 0, <<>>),
   content |-> <<>>, ok |-> FALSE, resp |-> NoResp, err |-> "",
   was |-> "", nth |-> 0, stats |-> <<0, 0>>, nLimit |-> 0, nGet |-> 0, nPut |-> 0, cacheHit |-> FALSE,
   evicted |-> FALSE, nQuery |-> 0, nRead |-> 0, ents0 |-> EmptyMap,
   putReq |-> MkReq(<<>>, <<>>, 0, 0, <<>>)]

\* history of a tenant in the limiter: "never" seen, deleted by "reset",
\* in the "first" short window since it was created (start, calls so far,
\* saturating), or "later".  It is kept by the actions of SpecLimiter only.
NoHist == [state |-> "never", start |-> 0, calls |-> 0]

\* the configuration of the service, with the TTL in ticks and the
\* thresholds at the largest values the model draws
\* 100 * 1024 * 1024
DefaultMaxCacheSize == 104857600

DefaultConfig ==
  [EnableCache |-> TRUE, CacheTTL |-> 1, MaxCacheSize |-> DefaultMaxCacheSize,
   MaxRequestsPerMinute |-> MaxPerMin, MaxRequestsPerHour |-> MaxPerHour]

IdleProc ==
  [pc |-> "idle", req |-> MkReq(<<>>, <<>>, 0, 0, <<>>), fileContent |-> <<>>,
   resp |-> NoResp, nLimit |-> 0, nGet |-> 0, nPut |-> 0, nQuery |-> 0, nRead |-> 0,
   ents0 |-> EmptyMap]

AllProcs == {1}

\* a Go string seen as a view (origin, lo, hi) of the bytes it was sliced
\* from: s[a:b] moves the bounds and copies nothing
Text(src, n) == [src |-> src, lo |-> 0, hi |-> n]
TextLen(t) == t.hi - t.lo
\* s[a:]
TextFrom(t, a) == [t EXCEPT !.lo = t.lo + a]
\* s[:b]
TextTo(t, b) == [t EXCEPT !.hi = t.lo + b]

\* the context under assembly: the CompletionContext (before the budget
\* pass in `in`, after it in `out`), the budget of the gatherer, the raw
\* discussion file and the excerpt gatherDiscussionContext keeps of it
NoAsm ==
  [stage |-> "none", maxTokens |-> 0,
   in |-> [Prefix |-> Text("source", 0), Suffix |-> Text("source", 0),
           AgentsInstructions |-> Text("agents", 0),
           DiscussionContext |-> Text("discussion", 0),
           AdditionalFiles |-> <<>>],
   out |-> [Prefix |-> Text("source", 0), Suffix |-> Text("source", 0),
            AgentsInstructions |-> Text("agents", 0),
            DiscussionContext |-> Text("discussion", 0),
            AdditionalFiles |-> <<>>],
   discussionFile |-> Text("discussion", 0),
   excerpt |-> Text("discussion", 0)]

\* a GatherContext call: the project root the provider reported, the target
\* path, the directory the instruction walk is at, the directories it has
\* read in, the contents it has found, and the parts of the context
NoGather ==
  [stage |-> "none", baseErr |-> "", baseDir |-> <<>>, target |-> <<>>,
   ContextFiles |-> <<>>, discussionErr |-> "", discussionFile |-> <<>>,
   dir |-> <<>>, visited |-> <<>>, instructions |-> <<>>,
   prefix |-> <<>>, suffix |-> <<>>, agents |-> <<>>, discussion |-> <<>>,
   additional |-> <<>>, err |-> ""]

\* sync.RWMutex of the cache (Cache.mu) and of the limiter (RateLimiter.mu):
\* the process holding the write lock (0 for none) and the read-lock holders
FreeLock == [writer |-> 0, readers |-> {}]
NoLocks == [cache |-> FreeLock, limiter |-> FreeLock]

\* a lock that excludes nobody
CanLockUnguarded(l, p) == TRUE

\* mu.Lock() / mu.RLock() can be taken by process p
CanLock(l, p) == l.writer = 0 /\ l.readers = {}
CanRLock(l, p) == l.writer = 0
Lock(l, p) == [l EXCEPT !.writer = p]
RLock(l, p) == [l EXCEPT !.readers = @ \cup {p}]

\* an operation that returns without releasing
UnlockLeaks(l, p) == l

\* the deferred mu.Unlock() / mu.RUnlock() of p as the operation returns
\* (nothing to release for a process that took no lock)
Unlock(l, p) ==
  [l EXCEPT !.writer = IF @ = p THEN 0 ELSE @, !.readers = @ \ {p}]

LockHolders(l) == l.readers \cup (IF l.writer = 0 THEN {} ELSE {l.writer})

InitState ==
  /\ now = 0
  /\ entries = EmptyMap
  /\ heap = <<>>
  /\ requestCounts = EmptyMap
  /\ hist = [t \in Tenants |-> NoHist]
  /\ files = [f \in FilePaths |-> ContentX]
  /\ procs = [p \in AllProcs |-> IdleProc]
  /\ last = NoEv
  /\ split = [content |-> <<>>, line |-> 0, col |-> 0, done |-> FALSE,
              prefix |-> <<>>, suffix |-> <<>>]
  /\ asm = NoAsm
  /\ locks = NoLocks
  /\ gather = NoGather

\* time.Now() advances
TickTo(bound) ==
  /\ now < bound
  /\ now' = now + 1
  /\ last' = [NoEv EXCEPT !.op = "Tick"]
  /\ UNCHANGED <<cfg, entries, heap, requestCounts, hist, files, procs, split, asm, locks, gather>>

(* ------------------- the cache used through its API --------------------- *)
InitCache ==
  /\ InitState
  /\ cfg \in {[DefaultConfig EXCEPT !.EnableCache = e, !.CacheTTL = ttl] :
                e \in BOOLEAN, ttl \in 1..MaxTTL}

\* a caller builds a CompletionResponse
AllocResponse ==
  /\ Len(heap) < MaxResp
  /\ heap' = Append(heap, NewResponse(Len(heap) + 1, <<>>))
  /\ last' = [NoEv EXCEPT !.op = "Alloc", !.resp = Len(heap) + 1]
  /\ UNCHANGED <<now, cfg, entries, requestCounts, hist, files, procs, split, asm, locks, gather>>

\* the fields of a request that make its cache identity
Identity(req) ==
  <<req.ProjectID, req.FilePath, req.CursorLine, req.CursorColumn, req.LLM>>

\* a Get that sweeps the entry it reports absent
GetSweeps(req, content) ==
  LET r == CacheGet(entries, cfg.EnableCache, cfg.CacheTTL, now, req, content)
  IN /\ last' = [NoEv EXCEPT !.op = "Get", !.req = req, !.content = content,
                             !.ok = r.ok, !.resp = r.resp]
     /\ entries' = IF ~r.ok /\ cfg.EnableCache THEN MapDel(entries, cacheKey(req))
                   ELSE entries
     /\ UNCHANGED <<now, cfg, heap, requestCounts, hist, files, procs, split, asm, locks, gather>>

\* (putReq remembers the request of the directly preceding Put when that is
\* another request of the same identity)
Get(req, content) ==
  LET r == CacheGet(entries, cfg.EnableCache, cfg.CacheTTL, now, req, content)
  IN /\ last' = [NoEv EXCEPT !.op = "Get", !.req = req, !.content = content,
                             !.ok = r.ok, !.resp = r.resp,
                             !.putReq = IF last.op = "Put" /\ last.req # req
                                            /\ Identity(last.req) = Identity(req)
                                         THEN last.req ELSE @]
     /\ UNCHANGED <<now, cfg, entries, heap, requestCounts, hist, files, procs, split, asm, locks, gather>>

Put(req, content, resp) ==
  /\ entries' \in CachePut(entries, cfg.EnableCache, now, req, content, resp)
  /\ last' = [NoEv EXCEPT !.op = "Put", !.req = req, !.content = content, !.resp = resp,
                          !.evicted = ~(DOMAIN entries \subseteq DOMAIN entries')]
  /\ UNCHANGED <<now, cfg, heap, requestCounts, hist, files, procs, split, asm, locks, gather>>

\* the requests the cache is exercised with: pairwise distinct keys
CacheReqs ==
  {MkReq(ProjP, FileA, 0, 0, <<>>), MkReq(ProjQ, FileB, 0, 0, <<>>),
   MkReq(ProjP, FileA, 1, 1, <<>>), MkReq(ProjP, FileA, 0, 0, <<"m">>)}

TickCache == TickTo(MaxCacheNow)

NextCache ==
  \/ TickCache
  \/ AllocResponse
  \/ \E req \in CacheReqs, content \in Contents : Get(req, content)
  \/ \E req \in CacheReqs, content \in Contents, resp \in 1..Len(heap) : Put(req, content, resp)

SpecCache == InitCache /\ [][NextCache]_vars

\* the cache exercised with requests of one identity: a request, three that
\* differ from it in one auxiliary field each, and one of another identity
AuxReqs ==
  {[MkReq(ProjP, FileA, 0, 0, <<>>) EXCEPT !.ContextFiles = <<FileB>>],
   [MkReq(ProjP, FileA, 0, 0, <<>>) EXCEPT !.Temperature = 1],
   [MkReq(ProjP, FileA, 0, 0, <<>>) EXCEPT !.MaxTokens = 1]}
KeyReqs == {MkReq(ProjP, FileA, 0, 0, <<>>), MkReq(ProjP, FileA, 1, 1, <<>>)} \cup AuxReqs

NextKey ==
  \/ TickCache
  \/ AllocResponse
  \/ \E req \in KeyReqs, content \in Contents : Get(req, content)
  \/ \E req \in KeyReqs, content \in Contents, resp \in 1..Len(heap) : Put(req, content, resp)

SpecKey == InitCache /\ [][NextKey]_vars

\* caches built with several max sizes, filled by Put alone
CacheSizes == {0, CacheCeiling, DefaultMaxCacheSize}

InitSize ==
  /\ InitState
  /\ cfg \in {[DefaultConfig EXCEPT !.EnableCache = e, !.MaxCacheSize = m] :
                e \in BOOLEAN, m \in CacheSizes}

NextSize ==
  \/ TickCache
  \/ AllocResponse
  \/ \E req \in CacheReqs, resp \in 1..Len(heap) : Put(req, ContentX, resp)

SpecSize == InitSize /\ [][NextSize]_vars

\* the cache exercised with requests whose tenant or path holds the
\* separator of the key: tenant "p:a" with path "b", tenant "p" with path
\* "a:b", and a request without a separator
ColonProj == <<"p", ":", "a">>
ColonPath == <<"a", ":", "b">>
SeparatorReqs ==
  {MkReq(ColonProj, FileB, 0, 0, <<>>), MkReq(ProjP, ColonPath, 0, 0, <<>>),
   MkReq(ProjP, FileA, 0, 0, <<>>)}

\* (hist remembers, for each key, the request whose Put wrote the entry)
InitSeparator ==
  /\ now = 0
  /\ entries = EmptyMap
  /\ heap = <<>>
  /\ requestCounts = EmptyMap
  /\ hist = EmptyMap
  /\ files = [f \in FilePaths |-> ContentX]
  /\ procs = [p \in AllProcs |-> IdleProc]
  /\ last = NoEv
  /\ split = [content |-> <<>>, line |-> 0, col |-> 0, done |-> FALSE,
              prefix |-> <<>>, suffix |-> <<>>]
  /\ asm = NoAsm
  /\ locks = NoLocks
  /\ gather = NoGather
  /\ cfg \in {[DefaultConfig EXCEPT !.EnableCache = e, !.CacheTTL = ttl] :
                e \in BOOLEAN, ttl \in 1..MaxTTL}

SeparatorGet(req, content) ==
  LET r == CacheGet(entries, cfg.EnableCache, cfg.CacheTTL, now, req, content)
  IN /\ last' = [NoEv EXCEPT !.op = "Get", !.req = req, !.content = content,
                             !.ok = r.ok, !.resp = r.resp]
     /\ UNCHANGED <<now, cfg, entries, heap, requestCounts, hist, files, procs, split, asm, locks, gather>>

SeparatorPut(req, content, resp) ==
  /\ entries' \in CachePut(entries, cfg.EnableCache, now, req, content, resp)
  /\ hist' = IF cfg.EnableCache THEN MapPut(hist, cacheKey(req), req) ELSE hist
  /\ last' = [NoEv EXCEPT !.op = "Put", !.req = req, !.content = content, !.resp = resp]
  /\ UNCHANGED <<now, cfg, heap, requestCounts, files, procs, split, asm, locks, gather>>

NextSeparator ==
  \/ TickCache
  \/ AllocResponse
  \/ \E req \in SeparatorReqs, content \in Contents : SeparatorGet(req, content)
  \/ \E req \in SeparatorReqs, content \in Contents, resp \in 1..Len(heap) :
       SeparatorPut(req, content, resp)

SpecSeparator == InitSeparator /\ [][NextSeparator]_vars

(* ---------------- the rate limiter used through its API ----------------- *)
InitLimiter ==
  /\ InitState
  /\ cfg \in {[DefaultConfig EXCEPT !.MaxRequestsPerMinute = m, !.MaxRequestsPerHour = h] :
                m \in 1..MaxPerMin, h \in 1..MaxPerHour}

CallCap == MaxPerMin + 2
Saturate(n) == IF n > CallCap THEN CallCap ELSE n

\* how a CheckLimit call at time t finds the tenant
HistWas(counts, hs, tenant, t) ==
  IF tenant \notin DOMAIN counts THEN hs[tenant].state
  ELSE IF hs[tenant].state = "first" /\ t - hs[tenant].start >= Minute THEN "rolled"
  ELSE hs[tenant].state

\* the index of the call in the tenant's first short window; for the first
\* call after that window, the number of calls the window saw
HistNth(counts, hs, tenant, t) ==
  LET was == HistWas(counts, hs, tenant, t)
  IN IF was \in {"never", "reset"} THEN 1
     ELSE IF was = "first" THEN Saturate(hs[tenant].calls + 1)
     ELSE IF was = "rolled" THEN hs[tenant].calls
     ELSE 0

HistAfterCheck(counts, hs, tenant, t) ==
  LET was == HistWas(counts, hs, tenant, t)
  IN IF tenant \notin DOMAIN hs THEN hs
     ELSE IF was \in {"never", "reset"}
     THEN [hs EXCEPT ![tenant] = [state |-> "first", start |-> t, calls |-> 1]]
     ELSE IF was = "first"
     THEN [hs EXCEPT ![tenant].calls = Saturate(@ + 1)]
     ELSE [hs EXCEPT ![tenant] = [state |-> "later", start |-> 0, calls |-> 0]]

HistAfterReset(counts, hs, ts) ==
  [t \in DOMAIN hs |->
     IF t \in ts /\ t \in DOMAIN counts THEN [state |-> "reset", start |-> 0, calls |-> 0]
     ELSE hs[t]]

DoCheckLimit(tenant) ==
  LET r == CheckLimit(requestCounts, tenant, cfg.MaxRequestsPerMinute,
                      cfg.MaxRequestsPerHour, now)
  IN /\ requestCounts' = r.counts
     /\ hist' = HistAfterCheck(requestCounts, hist, tenant, now)
     /\ last' = [NoEv EXCEPT !.op = "CheckLimit", !.tenant = tenant, !.err = r.err,
                             !.was = HistWas(requestCounts, hist, tenant, now),
                             !.nth = HistNth(requestCounts, hist, tenant, now)]
     /\ UNCHANGED <<now, cfg, entries, heap, files, procs, split, asm, locks, gather>>

DoReset(tenant) ==
  /\ requestCounts' = ResetLimit(requestCounts, tenant)
  /\ hist' = HistAfterReset(requestCounts, hist, {tenant})
  /\ last' = [NoEv EXCEPT !.op = "Reset", !.tenant = tenant]
  /\ UNCHANGED <<now, cfg, entries, heap, files, procs, split, asm, locks, gather>>

\* RateLimiter.ResetAll
DoResetAll ==
  /\ requestCounts' = EmptyMap
  /\ hist' = HistAfterReset(requestCounts, hist, Tenants)
  /\ last' = [NoEv EXCEPT !.op = "ResetAll"]
  /\ UNCHANGED <<now, cfg, entries, heap, files, procs, split, asm, locks, gather>>

DoGetStats(tenant) ==
  LET r == GetStats(requestCounts, tenant, now)
  IN /\ last' = [NoEv EXCEPT !.op = "GetStats", !.tenant = tenant, !.ok = r.ok,
                             !.stats = <<r.minuteCount, r.hourCount>>]
     /\ UNCHANGED <<now, cfg, entries, heap, requestCounts, hist, files, procs, split, asm, locks, gather>>

TickLimiter == TickTo(MaxNow)

NextLimiter ==
  \/ TickLimiter
  \/ \E tenant \in Tenants : DoCheckLimit(tenant)
  \/ \E tenant \in Tenants : DoReset(tenant)
  \/ DoResetAll
  \/ \E tenant \in Tenants : DoGetStats(tenant)

SpecLimiter == InitLimiter /\ [][NextLimiter]_vars

\* the limiter called with fixed thresholds and never reset
\* (hist counts, for each tenant and instant, the calls accepted then)
WindowTenants == {ProjP}
InitWindow ==
  /\ now = 0
  /\ entries = EmptyMap
  /\ heap = <<>>
  /\ requestCounts = EmptyMap
  /\ hist = [tenant \in WindowTenants |-> [t \in 0..MaxNow |-> 0]]
  /\ files = [f \in FilePaths |-> ContentX]
  /\ procs = [p \in AllProcs |-> IdleProc]
  /\ last = NoEv
  /\ split = [content |-> <<>>, line |-> 0, col |-> 0, done |-> FALSE,
              prefix |-> <<>>, suffix |-> <<>>]
  /\ asm = NoAsm
  /\ locks = NoLocks
  /\ gather = NoGather
  /\ cfg \in {[DefaultConfig EXCEPT !.MaxRequestsPerMinute = m, !.MaxRequestsPerHour = h] :
                m \in 1..MaxPerMin, h \in 1..MaxPerHour}

WindowCheckLimit(tenant) ==
  LET r == CheckLimit(requestCounts, tenant, cfg.MaxRequestsPerMinute,
                      cfg.MaxRequestsPerHour, now)
  IN /\ requestCounts' = r.counts
     /\ hist' = IF r.err = "" THEN [hist EXCEPT ![tenant][now] = @ + 1] ELSE hist
     /\ last' = [NoEv EXCEPT !.op = "CheckLimit", !.tenant = tenant, !.err = r.err]
     /\ UNCHANGED <<now, cfg, entries, heap, files, procs, split, asm, locks, gather>>

NextWindow ==
  \/ TickLimiter
  \/ \E tenant \in WindowTenants : WindowCheckLimit(tenant)

SpecWindow == InitWindow /\ [][NextWindow]_vars

(* ------------- CheckLimit called by concurrent goroutines --------------- *)
\* two goroutines call CheckLimit at one instant (one short and one long
\* window).  A call takes the lock, looks the counter up (creating it and
\* resetting elapsed windows), then compares and increments what it looked
\* up, and releases the lock as it returns.  `accepted` counts, per caller
\* and tenant, the calls that returned nil.
RaceProcs == {1, 2}
IdleCaller ==
  [pc |-> "idle", tenant |-> <<>>,
   count |-> [Minute |-> 0, Hour |-> 0, LastMinuteReset |-> 0, LastHourReset |-> 0],
   accepted |-> [t \in Tenants |-> 0]]

InitRace ==
  /\ now = 0
  /\ cfg \in {[DefaultConfig EXCEPT !.MaxRequestsPerMinute = m, !.MaxRequestsPerHour = h] :
                m \in 1..MaxPerMin, h \in 1..MaxPerHour}
  /\ entries = EmptyMap
  /\ heap = <<>>
  /\ requestCounts = EmptyMap
  /\ hist = [t \in Tenants |-> NoHist]
  /\ files = [f \in FilePaths |-> ContentX]
  /\ procs = [p \in RaceProcs |-> IdleCaller]
  /\ last = NoEv
  /\ split = [content |-> <<>>, line |-> 0, col |-> 0, done |-> FALSE,
              prefix |-> <<>>, suffix |-> <<>>]
  /\ asm = NoAsm
  /\ locks = NoLocks
  /\ gather = NoGather

\* r.mu.Lock()
RaceLock(p, tenant) ==
  /\ procs[p].pc = "idle"
  /\ CanLock(locks.limiter, p)
  /\ locks' = [locks EXCEPT !.limiter = Lock(@, p)]
  /\ procs' = [procs EXCEPT ![p].pc = "locked", ![p].tenant = tenant]
  /\ last' = [NoEv EXCEPT !.op = "Lock", !.proc = p, !.tenant = tenant]
  /\ UNCHANGED <<now, cfg, entries, heap, requestCounts, hist, files, split, asm, gather>>

\* count, exists := r.requestCounts[projectID] ... the two window resets
RaceLoad(p) ==
  /\ procs[p].pc = "locked"
  /\ LET t == procs[p].tenant
         c == ResetHourWindow(ResetMinuteWindow(LookupCount(requestCounts, t, now), now), now)
     IN /\ requestCounts' = MapPut(requestCounts, t, c)
        /\ procs' = [procs EXCEPT ![p].pc = "loaded", ![p].count = c]
        /\ last' = [NoEv EXCEPT !.op = "Load", !.proc = p, !.tenant = t]
  /\ UNCHANGED <<now, cfg, entries, heap, hist, files, split, asm, locks, gather>>

\* the threshold tests and the two increments on the counter looked up;
\* the deferred r.mu.Unlock()
RaceDecide(p) ==
  /\ procs[p].pc = "loaded"
  /\ LET t == procs[p].tenant
         r == CheckLimit(MapPut(requestCounts, t, procs[p].count), t,
                         cfg.MaxRequestsPerMinute, cfg.MaxRequestsPerHour, now)
     IN /\ requestCounts' = r.counts
        /\ procs' = [procs EXCEPT ![p].pc = "idle",
                                  ![p].accepted[t] = IF r.err = "" THEN @ + 1 ELSE @]
        /\ last' = [NoEv EXCEPT !.op = "CheckLimit", !.proc = p, !.tenant = t,
                                !.err = r.err]
  /\ locks' = [locks EXCEPT !.limiter = Unlock(@, p)]
  /\ UNCHANGED <<now, cfg, entries, heap, hist, files, split, asm, gather>>

NextRace ==
  \/ \E p \in RaceProcs, tenant \in Tenants : RaceLock(p, tenant)
  \/ \E p \in RaceProcs : RaceLoad(p)
  \/ \E p \in RaceProcs : RaceDecide(p)

SpecRace == InitRace /\ [][NextRace]_vars

(* ------------------------- the cursor split ----------------------------- *)
SplitAlphabet == {"a", "b", NL}
ExampleContent == <<"a", "b", NL, "c", "d", NL>>
SplitContents ==
  UNION {[1..n -> SplitAlphabet] : n \in 0..MaxLen} \cup {ExampleContent}

InitSplit ==
  /\ now = 0
  /\ cfg = DefaultConfig
  /\ entries = EmptyMap
  /\ heap = <<>>
  /\ requestCounts = EmptyMap
  /\ hist = [t \in Tenants |-> NoHist]
  /\ files = [f \in FilePaths |-> ContentX]
  /\ procs = [p \in AllProcs |-> IdleProc]
  /\ last = NoEv
  /\ asm = NoAsm
  /\ locks = NoLocks
  /\ gather = NoGather
  /\ split \in {[content |-> c, line |-> l, col |-> k, done |-> FALSE,
                 prefix |-> <<>>, suffix |-> <<>>] :
                  c \in SplitContents, l \in (0 - 1)..MaxCursor, k \in (0 - 1)..MaxCursor}

DoSplit ==
  LET r == extractPrefixSuffix(split.content, split.line, split.col)
  IN /\ ~split.done
     /\ split' = [split EXCEPT !.done = TRUE, !.prefix = r.prefix, !.suffix = r.suffix]
     /\ last' = [NoEv EXCEPT !.op = "Split"]
     /\ UNCHANGED <<now, cfg, entries, heap, requestCounts, hist, files, procs, asm, locks, gather>>

NextSplit == DoSplit

SpecSplit == InitSplit /\ [][NextSplit]_vars

\* the cursor line of a content, after the clamping of the line number
CursorLineOf(content, line) ==
  LET ls == StringsSplit(content, NL)
      l == IF line < 0 THEN 0 ELSE IF line >= Len(ls) THEN Len(ls) - 1 ELSE line
  IN ls[l + 1]

\* the split the specification describes: lines above the cursor line joined
\* with the first col characters of the cursor line; the cursor line from col
\* onward plus all following lines
ExpectedSplit(content, line, col) ==
  LET ls == StringsSplit(content, NL)
      above == SliceTo(ls, line)
      cur == ls[line + 1]
      below == SliceFrom(ls, line + 1)
  IN [prefix |-> StringsJoin(Append(above, SliceTo(cur, col)), NL),
      suffix |-> StringsJoin(<<SliceFrom(cur, col)>> \o below, NL)]

SplitInRange ==
  /\ split.line >= 0
  /\ split.line < Len(StringsSplit(split.content, NL))
  /\ split.col >= 0
  /\ split.col < Len(CursorLineOf(split.content, split.line))

\* C10: for a cursor inside a line (0 <= column < length of the cursor line)
\* the before-text is the lines above joined with the cursor line's first
\* `column` characters and the after-text is the cursor line from `column`
\* onward plus all following lines.
C10_CursorSplit ==
  (split.done /\ SplitInRange) =>
     /\ split.prefix = ExpectedSplit(split.content, split.line, split.col).prefix
     /\ split.suffix = ExpectedSplit(split.content, split.line, split.col).suffix

\* C26: for every content and every integer (line, column), negative
\* values, a line past the last line and a column at or past the end of the
\* cursor line included, the split does not fail and the before-text
\* followed by the after-text is the content exactly: no character of the
\* cursor line is lost or duplicated.
C26_SplitRoundTrip ==
  split.done => split.prefix \o split.suffix = split.content

(* ------------------ ContextGatherer: token budget ----------------------- *)
\* estimateTokens divides the byte length by this
CharsPerToken == 4
\* gatherDiscussionContext keeps this many trailing characters
DiscussionWindow == 3000
\* trimToTokenBudget: the discussion is cut when its estimate exceeds
\* DiscussionTokenLimit, and DiscussionKeepChars trailing characters are kept
DiscussionTokenLimit == 1000
DiscussionKeepChars == 1000
\* trimToTokenBudget: the instructions are cut when their estimate exceeds
\* AgentsTokenLimit, and AgentsKeepChars leading characters are kept
AgentsTokenLimit == 2000
AgentsKeepChars == 2000

estimateTokens(t) == TextLen(t) \div CharsPerToken

gatherDiscussionContext(file) ==
  IF TextLen(file) > DiscussionWindow
    THEN TextFrom(file, TextLen(file) - DiscussionWindow)
    ELSE file

RECURSIVE SumTokens(_)
SumTokens(fs) ==
  IF fs = <<>> THEN 0 ELSE estimateTokens(Head(fs)) + SumTokens(Tail(fs))

currentTokens(ctx) ==
  estimateTokens(ctx.Prefix) + estimateTokens(ctx.Suffix)
    + estimateTokens(ctx.AgentsInstructions)
    + estimateTokens(ctx.DiscussionContext)
    + SumTokens(ctx.AdditionalFiles)

\* the budget pass without its early return
trimToTokenBudgetAlways(ctx, maxTokens) ==
  LET d == ctx.DiscussionContext
      a == ctx.AgentsInstructions
      d1 == IF estimateTokens(d) > DiscussionTokenLimit
              THEN TextFrom(d, TextLen(d) - DiscussionKeepChars)
              ELSE d
      a1 == IF estimateTokens(a) > AgentsTokenLimit
              THEN TextTo(a, AgentsKeepChars)
              ELSE a
  IN [ctx EXCEPT !.DiscussionContext = d1, !.AgentsInstructions = a1]

trimToTokenBudget(ctx, maxTokens) ==
  IF currentTokens(ctx) <= maxTokens THEN ctx
  ELSE
    LET d == ctx.DiscussionContext
        a == ctx.AgentsInstructions
        d1 == IF estimateTokens(d) > DiscussionTokenLimit
                THEN TextFrom(d, TextLen(d) - DiscussionKeepChars)
                ELSE d
        a1 == IF estimateTokens(a) > AgentsTokenLimit
                THEN TextTo(a, AgentsKeepChars)
                ELSE a
    IN [ctx EXCEPT !.DiscussionContext = d1, !.AgentsInstructions = a1]

\* lengths of the source file, of the text before the cursor, of the
\* instructions, of the discussion file and of one additional file; budgets
SourceLens == {0, 5000}
PrefixLens == {0, 2000, 5000}
AgentsLens == {0, 2000, 7996, 8000, 8004, 10000}
DiscussionLens == {0, 2000, 3000, 4004, 5000}
AdditionalLens == {0, 400}
Budgets == {1000, 10000}

\* GatherContext up to the discussion lookup: prefix, suffix and
\* instructions are in the context, the discussion file is still unread
InitTrim ==
  /\ now = 0
  /\ cfg = DefaultConfig
  /\ entries = EmptyMap
  /\ heap = <<>>
  /\ requestCounts = EmptyMap
  /\ hist = [t \in Tenants |-> NoHist]
  /\ files = [f \in FilePaths |-> ContentX]
  /\ procs = [p \in AllProcs |-> IdleProc]
  /\ last = NoEv
  /\ split = [content |-> <<>>, line |-> 0, col |-> 0, done |-> FALSE,
              prefix |-> <<>>, suffix |-> <<>>]
  /\ locks = NoLocks
  /\ gather = NoGather
  /\ \E src \in SourceLens, pre \in PrefixLens, ag \in AgentsLens,
        dl \in DiscussionLens, ad \in AdditionalLens, b \in Budgets :
       /\ pre <= src
       /\ asm = [NoAsm EXCEPT
            !.stage = "agents",
            !.maxTokens = b,
            !.discussionFile = Text("discussion", dl),
            !.in = [Prefix |-> TextTo(Text("source", src), pre),
                    Suffix |-> TextFrom(Text("source", src), pre),
                    AgentsInstructions |-> Text("agents", ag),
                    DiscussionContext |-> Text("discussion", 0),
                    AdditionalFiles |->
                      IF ad = 0 THEN <<>> ELSE <<Text("additional", ad)>>]]

\* GatherContext: discussionContext := g.gatherDiscussionContext(...)
DoGatherDiscussion ==
  /\ asm.stage = "agents"
  /\ LET e == gatherDiscussionContext(asm.discussionFile)
     IN asm' = [asm EXCEPT !.stage = "gathered", !.excerpt = e,
                           !.in.DiscussionContext = e]
  /\ last' = [NoEv EXCEPT !.op = "GatherDiscussion"]
  /\ UNCHANGED <<now, cfg, entries, heap, requestCounts, hist, files, procs, split, locks, gather>>

\* GatherContext: g.trimToTokenBudget(ctx)
DoTrim ==
  /\ asm.stage = "gathered"
  /\ asm' = [asm EXCEPT !.stage = "trimmed",
                        !.out = trimToTokenBudget(asm.in, asm.maxTokens)]
  /\ last' = [NoEv EXCEPT !.op = "Trim"]
  /\ UNCHANGED <<now, cfg, entries, heap, requestCounts, hist, files, procs, split, locks, gather>>

NextTrim == DoGatherDiscussion \/ DoTrim

SpecTrim == InitTrim /\ [][NextTrim]_vars

\* n is about target: within a tenth of it
About(n, target) ==
  /\ 10 * (n - target) <= target
  /\ 10 * (target - n) <= target

OverBudget == asm.stage = "trimmed" /\ currentTokens(asm.in) > asm.maxTokens

\* C11: when the estimated total exceeds the budget, a discussion of more
\* than 1000 estimated tokens ends as its trailing 1000-token equivalent
\* (about 4000 characters) and instructions of more than 2000 estimated
\* tokens end as their leading 2000-token equivalent (about 8000
\* characters); before and after text stay untouched.
C11_TrimToTokenEquivalents ==
  OverBudget =>
     /\ asm.out.Prefix = asm.in.Prefix
     /\ asm.out.Suffix = asm.in.Suffix
     /\ estimateTokens(asm.discussionFile) > DiscussionTokenLimit =>
          /\ asm.out.DiscussionContext.hi = asm.discussionFile.hi
          /\ About(TextLen(asm.out.DiscussionContext),
                   DiscussionTokenLimit * CharsPerToken)
     /\ estimateTokens(asm.in.AgentsInstructions) > AgentsTokenLimit =>
          /\ asm.out.AgentsInstructions.lo = asm.in.AgentsInstructions.lo
          /\ About(TextLen(asm.out.AgentsInstructions),
                   AgentsTokenLimit * CharsPerToken)

\* C25: the budget pass never changes the before-cursor text, the
\* after-cursor text or any auxiliary file content, whatever their sizes;
\* and when the estimated total is at most the budget it changes nothing.
C25_BudgetPassFrame ==
  asm.stage = "trimmed" =>
     /\ asm.out.Prefix = asm.in.Prefix
     /\ asm.out.Suffix = asm.in.Suffix
     /\ asm.out.AdditionalFiles = asm.in.AdditionalFiles
     /\ currentTokens(asm.in) <= asm.maxTokens => asm.out = asm.in

\* a pass over budget that cut the instructions and left the non-empty
\* before-text, after-text and auxiliary file alone
C25_Witness ==
  /\ OverBudget
  /\ asm.out.AgentsInstructions # asm.in.AgentsInstructions
  /\ asm.in.AdditionalFiles # <<>>
  /\ TextLen(asm.out.Prefix) > 0 /\ TextLen(asm.out.Suffix) > 0

(* ------------------ ContextGatherer.GatherContext ----------------------- *)
AgentsFile == <<"AGENTS.md">>
\* "\n\n---\n\n"
Delimiter == <<NL, NL, "-", "-", "-", NL, NL>>
\* DefaultConfig().MaxContextTokens
MaxContextTokens == 10000

\* the text a view selects of the string s it was cut from
Substr(s, view) == SubSeq(s, view.lo + 1, view.hi)

\* the loop of gatherAgentsInstructions leaves after reading in dir, parent
\* being filepath.Dir(dir)
WalkBreaks(dir, parent, baseDir) ==
  \/ dir = baseDir \/ dir = <<"/">> \/ dir = Dot
  \/ parent = dir

\* the auxiliary files collected last to first
RECURSIVE gatherAdditionalFilesReversed(_, _, _)
gatherAdditionalFilesReversed(contextFiles, baseDir, fs) ==
  IF contextFiles = <<>> THEN <<>>
  ELSE LET filePath == Head(contextFiles)
           r == ReadFile(fs, resolveFilePath(baseDir, filePath))
           rest == gatherAdditionalFilesReversed(Tail(contextFiles), baseDir, fs)
       IN IF r.err # "" THEN rest
          ELSE rest \o <<[Path |-> filePath, Content |-> r.content]>>

RECURSIVE gatherAdditionalFiles(_, _, _)
gatherAdditionalFiles(contextFiles, baseDir, fs) ==
  IF contextFiles = <<>> THEN <<>>
  ELSE LET filePath == Head(contextFiles)
           r == ReadFile(fs, resolveFilePath(baseDir, filePath))
           rest == gatherAdditionalFiles(Tail(contextFiles), baseDir, fs)
       IN IF r.err # "" THEN rest
          ELSE <<[Path |-> filePath, Content |-> r.content]>> \o rest

\* project roots a provider reports: normalized, with a trailing
\* separator, relative, relative and not normalized
Roots == {DirR, DirR \o <<"/">>, <<"r">>, <<".", "/", "r">>}
\* target paths: in the root, in a subdirectory, outside the root, absolute
Targets ==
  {FileA, <<"d", "/", "a">>, <<".", ".", "/", "a">>, DirR \o <<"/", "d", "/", "a">>}
\* the directories an instructions file may lie in
AgentsDirs == {<<"/">>, DirR, DirR \o <<"/", "d">>, Dot, <<"r">>, <<"r", "/", "d">>}
AgentsPathOf(dir) == PathJoin(dir, AgentsFile)
\* the content of the instructions file of a directory
AgentsContentOf(dir) == <<"I">> \o dir
\* the sets of directories that hold an instructions file
AgentsLayouts ==
  {{}, AgentsDirs, {DirR}, {DirR \o <<"/", "d">>, <<"/">>}, {<<"r">>, Dot},
   {DirR, DirR \o <<"/", "d">>}}
DiscussionPath == DirR \o <<"/", "m">>
FileC == <<"c">>
AuxLists == {<<>>, <<FileB, FileC>>, <<FileC, DirR \o <<"/">> \o FileB>>}
AuxLayouts == {{}, {FileB}, {FileB, FileC}}
GatherPaths ==
  {AgentsPathOf(d) : d \in AgentsDirs} \cup {DiscussionPath}
    \cup {PathJoin(b, f) : b \in Roots, f \in {FileB, FileC}}

\* the directories a walk can be in: where it starts, and their ancestors
StartDirs == {Dir(PathJoin(b, t)) : b \in Roots, t \in Targets}
Parents(dirs) == dirs \cup {Dir(d) : d \in dirs}
WalkDirs == Parents(Parents(Parents(Parents(StartDirs))))
\* filepath.Dir(dir) and filepath.Join(dir, "AGENTS.md"), tabulated
ParentOf == [d \in WalkDirs |-> Dir(d)]
AgentsPathAt == [d \in WalkDirs |-> PathJoin(d, AgentsFile)]

\* the file table in which the directories of `layout` hold an instructions
\* file, the files of `aux` exist under every root, and the discussion file
\* exists or not
GatherFiles(layout, aux, disc) ==
  [f \in GatherPaths |->
     IF \E d \in layout : f = AgentsPathOf(d)
       THEN AgentsContentOf(CHOOSE d \in layout : f = AgentsPathOf(d))
     ELSE IF \E b \in Roots, x \in aux : f = PathJoin(b, x) THEN <<"F">> \o f
     ELSE IF f = DiscussionPath /\ disc THEN <<"D", NL, "D">>
     ELSE Missing]

\* a gatherer, before GatherContext is called
InitGather ==
  /\ now = 0
  /\ cfg = DefaultConfig
  /\ entries = EmptyMap
  /\ heap = <<>>
  /\ requestCounts = EmptyMap
  /\ hist = [t \in Tenants |-> NoHist]
  /\ procs = [p \in AllProcs |-> IdleProc]
  /\ last = NoEv
  /\ split = [content |-> <<>>, line |-> 0, col |-> 0, done |-> FALSE,
              prefix |-> <<>>, suffix |-> <<>>]
  /\ asm = NoAsm
  /\ locks = NoLocks
  /\ files = GatherFiles({}, {}, FALSE)
  /\ gather = NoGather

\* GatherContext is called: the file table, the provider, and the request
GatherCall ==
  /\ gather.stage = "none"
  /\ \E layout \in AgentsLayouts, aux \in AuxLayouts, disc \in BOOLEAN :
       files' = GatherFiles(layout, aux, disc)
  /\ \E root \in Roots, target \in Targets, list \in AuxLists,
        baseErr \in {"", "NOT_FOUND"}, discErr \in {"", "NOT_FOUND"} :
       gather' = [NoGather EXCEPT !.stage = "start", !.baseErr = baseErr,
                                  !.baseDir = IF baseErr = "" THEN root ELSE <<>>,
                                  !.target = target, !.ContextFiles = list,
                                  !.discussionErr = discErr,
                                  !.discussionFile = IF discErr = "" THEN DiscussionPath
                                                     ELSE <<>>]
  /\ last' = [NoEv EXCEPT !.op = "GatherCall"]
  /\ UNCHANGED <<now, cfg, entries, heap, requestCounts, hist, procs, split, asm, locks>>

\* GetProjectBaseDir, extractPrefixSuffix, and the start of the walk
GatherStart ==
  /\ gather.stage = "start"
  /\ IF gather.baseErr # ""
     THEN gather' = [gather EXCEPT !.stage = "failed", !.err = gather.baseErr]
     ELSE LET ps == extractPrefixSuffix(ContentY, 1, 1)
          IN gather' = [gather EXCEPT !.stage = "walk",
                          !.prefix = ps.prefix, !.suffix = ps.suffix,
                          !.dir = Dir(PathJoin(gather.baseDir, gather.target))]
  /\ last' = [NoEv EXCEPT !.op = "GatherStart", !.err = gather.baseErr]
  /\ UNCHANGED <<now, cfg, entries, heap, requestCounts, hist, files, procs, split, asm, locks>>

\* an iteration of a loop that is left at the project root only: at a
\* directory that is its own parent it goes round and round
WalkStepNoGuard ==
  /\ gather.stage = "walk"
  /\ LET r == ReadFile(files, AgentsPathAt[gather.dir])
         seen == gather.dir \in {gather.visited[i] : i \in 1..Len(gather.visited)}
         found == IF r.err = "" /\ ~seen THEN Append(gather.instructions, r.content)
                  ELSE gather.instructions
     IN IF gather.dir = gather.baseDir
        THEN gather' = [gather EXCEPT !.stage = "walked", !.instructions = found,
                          !.visited = Append(@, gather.dir),
                          !.agents = JoinWith(found, Delimiter)]
        ELSE gather' = [gather EXCEPT !.instructions = found,
                          !.visited = IF seen THEN @ ELSE Append(@, gather.dir),
                          !.dir = ParentOf[gather.dir]]
  /\ last' = [NoEv EXCEPT !.op = "WalkStep"]
  /\ UNCHANGED <<now, cfg, entries, heap, requestCounts, hist, files, procs, split, asm, locks>>

\* one iteration of the loop of gatherAgentsInstructions: read the
\* instructions file of dir, then leave the loop or go to the parent
WalkStep ==
  /\ gather.stage = "walk"
  /\ LET r == ReadFile(files, AgentsPathAt[gather.dir])
         found == IF r.err = "" THEN Append(gather.instructions, r.content)
                  ELSE gather.instructions
     IN IF WalkBreaks(gather.dir, ParentOf[gather.dir], gather.baseDir)
        THEN gather' = [gather EXCEPT !.stage = "walked", !.instructions = found,
                          !.visited = Append(@, gather.dir),
                          !.agents = JoinWith(found, Delimiter)]
        ELSE gather' = [gather EXCEPT !.instructions = found,
                          !.visited = Append(@, gather.dir),
                          !.dir = ParentOf[gather.dir]]
  /\ last' = [NoEv EXCEPT !.op = "WalkStep"]
  /\ UNCHANGED <<now, cfg, entries, heap, requestCounts, hist, files, procs, split, asm, locks>>

\* gatherDiscussionContext
GatherDiscussion ==
  /\ gather.stage = "walked"
  /\ LET r == ReadFile(files, gather.discussionFile)
         str == IF gather.discussionErr # "" \/ r.err # "" THEN <<>>
                ELSE IF Len(r.content) > DiscussionWindow
                THEN SliceFrom(r.content, Len(r.content) - DiscussionWindow)
                ELSE r.content
     IN gather' = [gather EXCEPT !.stage = "discussed", !.discussion = str]
  /\ last' = [NoEv EXCEPT !.op = "GatherDiscussion"]
  /\ UNCHANGED <<now, cfg, entries, heap, requestCounts, hist, files, procs, split, asm, locks>>

\* gatherAdditionalFiles, the budget pass, and the return of the context
GatherFinish ==
  /\ gather.stage = "discussed"
  /\ LET add == gatherAdditionalFiles(gather.ContextFiles, gather.baseDir, files)
         views == [Prefix |-> Text("prefix", Len(gather.prefix)),
                   Suffix |-> Text("suffix", Len(gather.suffix)),
                   AgentsInstructions |-> Text("agents", Len(gather.agents)),
                   DiscussionContext |-> Text("discussion", Len(gather.discussion)),
                   AdditionalFiles |-> [i \in 1..Len(add) |->
                                          Text("additional", Len(add[i].Content))]]
         out == trimToTokenBudget(views, MaxContextTokens)
     IN gather' = [gather EXCEPT !.stage = "done",
                     !.additional = add,
                     !.agents = Substr(@, out.AgentsInstructions),
                     !.discussion = Substr(@, out.DiscussionContext)]
  /\ last' = [NoEv EXCEPT !.op = "GatherFinish"]
  /\ UNCHANGED <<now, cfg, entries, heap, requestCounts, hist, files, procs, split, asm, locks>>

NextGather == GatherCall \/ GatherStart \/ WalkStep \/ GatherDiscussion \/ GatherFinish

SpecGather == InitGather /\ [][NextGather]_vars

\* the goroutine in the loop of gatherAgentsInstructions keeps running
SpecGatherLive == SpecGather /\ WF_vars(WalkStep)

(* ------------------ CompletionService.Complete -------------------------- *)
\* the order with the cache lookup ahead of the rate-limit check
StageAfterCacheFirst(stage) ==
  CASE stage = "validate" -> "readfile"
    [] stage = "readfile" -> "cacheget"
    [] stage = "cacheget" -> "ratelimit"
    [] stage = "ratelimit" -> "gather"
    [] stage = "gather" -> "generate"
    [] stage = "generate" -> "store"
    [] OTHER -> "idle"

\* the order with the file read ahead of the rate-limit check
StageAfterReadFirst(stage) ==
  CASE stage = "validate" -> "readfile"
    [] stage = "readfile" -> "ratelimit"
    [] stage = "ratelimit" -> "cacheget"
    [] stage = "cacheget" -> "gather"
    [] stage = "gather" -> "generate"
    [] stage = "generate" -> "store"
    [] OTHER -> "idle"

\* the order with the generation ahead of the cache lookup
StageAfterGenerateFirst(stage) ==
  CASE stage = "validate" -> "ratelimit"
    [] stage = "ratelimit" -> "readfile"
    [] stage = "readfile" -> "gather"
    [] stage = "gather" -> "generate"
    [] stage = "generate" -> "cacheget"
    [] stage = "cacheget" -> "store"
    [] OTHER -> "idle"

\* the stage Complete enters when a stage succeeds (without a cache hit)
StageAfter(stage) ==
  CASE stage = "validate" -> "ratelimit"
    [] stage = "ratelimit" -> "readfile"
    [] stage = "readfile" -> "cacheget"
    [] stage = "cacheget" -> "gather"
    [] stage = "gather" -> "generate"
    [] stage = "generate" -> "store"
    [] OTHER -> "idle"

InitService ==
  /\ InitState
  /\ cfg \in {[DefaultConfig EXCEPT !.EnableCache = e, !.MaxRequestsPerMinute = m] :
                e \in BOOLEAN, m \in 1..MaxPerMin}

\* Complete returns to its caller
Return(p, err, resp, hit, counters) ==
  /\ procs' = [procs EXCEPT ![p] = IdleProc]
  /\ last' = [NoEv EXCEPT !.op = "Return", !.proc = p, !.req = procs[p].req,
                          !.tenant = procs[p].req.ProjectID, !.err = err, !.resp = resp,
                          !.cacheHit = hit, !.nLimit = counters.nLimit,
                          !.nGet = counters.nGet, !.nPut = counters.nPut,
                          !.nQuery = counters.nQuery, !.nRead = counters.nRead,
                          !.ents0 = counters.ents0]

Advance(p, stage, local) ==
  /\ procs' = [procs EXCEPT ![p] = [local EXCEPT !.pc = StageAfter(stage)]]
  /\ last' = [NoEv EXCEPT !.op = stage, !.proc = p, !.req = local.req]

\* the call starts: validateRequest
CompleteValidate(p, req) ==
  /\ procs[p].pc = "idle"
  /\ LET err == validateRequest(req)
         local == [IdleProc EXCEPT !.req = req, !.ents0 = entries]
     IN IF err # ""
        THEN /\ procs' = [procs EXCEPT ![p] = IdleProc]
             /\ last' = [NoEv EXCEPT !.op = "Return", !.proc = p, !.req = req,
                                     !.tenant = req.ProjectID, !.err = err]
        ELSE Advance(p, "validate", local)
  /\ UNCHANGED <<now, cfg, entries, heap, requestCounts, hist, files, split, asm, locks, gather>>

CompleteRateLimit(p) ==
  /\ procs[p].pc = "ratelimit"
  /\ LET tenant == procs[p].req.ProjectID
         r == CheckLimit(requestCounts, tenant, cfg.MaxRequestsPerMinute,
                         cfg.MaxRequestsPerHour, now)
         local == [procs[p] EXCEPT !.nLimit = @ + 1]
     IN /\ requestCounts' = r.counts
        /\ IF r.err # "" THEN Return(p, r.err, NoResp, FALSE, local)
           ELSE Advance(p, "ratelimit", local)
  /\ locks' = [locks EXCEPT !.limiter = Unlock(@, p)]
  /\ UNCHANGED <<now, cfg, entries, heap, hist, files, split, asm, gather>>

CompleteReadFile(p) ==
  /\ procs[p].pc = "readfile"
  /\ LET req == procs[p].req
         baseDir == GetProjectBaseDir(req.ProjectID).dir
         r == ReadFile(files, resolveFilePath(baseDir, req.FilePath))
         local == [procs[p] EXCEPT !.nRead = @ + 1, !.fileContent = r.content]
     IN IF r.err # "" THEN Return(p, "READ_FAILED", NoResp, FALSE, local)
        ELSE Advance(p, "readfile", local)
  /\ UNCHANGED <<now, cfg, entries, heap, requestCounts, hist, files, split, asm, locks, gather>>

\* the cache lookup missed, or the cache is switched off in the config
CompleteCacheMiss(p) ==
  /\ procs[p].pc = "cacheget"
  /\ LET r == CacheGet(entries, cfg.EnableCache, cfg.CacheTTL, now,
                       procs[p].req, procs[p].fileContent)
         local == IF cfg.EnableCache THEN [procs[p] EXCEPT !.nGet = @ + 1] ELSE procs[p]
     IN /\ ~(cfg.EnableCache /\ r.ok)
        /\ Advance(p, "cacheget", local)
  /\ locks' = [locks EXCEPT !.cache = Unlock(@, p)]
  /\ UNCHANGED <<now, cfg, entries, heap, requestCounts, hist, files, split, asm, gather>>

\* the cache lookup hit: Complete holds the pointer to the cached response
CompleteCacheHit(p) ==
  /\ procs[p].pc = "cacheget"
  /\ cfg.EnableCache
  /\ LET r == CacheGet(entries, cfg.EnableCache, cfg.CacheTTL, now,
                       procs[p].req, procs[p].fileContent)
     IN /\ r.ok
        /\ procs' = [procs EXCEPT ![p] = [@ EXCEPT !.pc = "cachehit", !.resp = r.resp,
                                                   !.nGet = @ + 1]]
        /\ last' = [NoEv EXCEPT !.op = "cacheget", !.proc = p, !.req = procs[p].req,
                                !.ok = TRUE, !.resp = r.resp]
  /\ locks' = [locks EXCEPT !.cache = Unlock(@, p)]
  /\ UNCHANGED <<now, cfg, entries, heap, requestCounts, hist, files, split, asm, gather>>

\* cached.CachedResult = true; return cached
CompleteReturnCached(p) ==
  /\ procs[p].pc = "cachehit"
  /\ heap' = [heap EXCEPT ![procs[p].resp].CachedResult = TRUE]
  /\ Return(p, "", procs[p].resp, TRUE, procs[p])
  /\ UNCHANGED <<now, cfg, entries, requestCounts, hist, files, split, asm, locks, gather>>

\* GatherContext fails only when the provider cannot report the base dir;
\* otherwise it reads through the provider (the AGENTS.md of the base
\* directory at least)
CompleteGather(p) ==
  /\ procs[p].pc = "gather"
  /\ IF GetProjectBaseDir(procs[p].req.ProjectID).err # ""
     THEN Return(p, "GATHER_FAILED", NoResp, FALSE, procs[p])
     ELSE Advance(p, "gather", [procs[p] EXCEPT !.nRead = @ + 1])
  /\ UNCHANGED <<now, cfg, entries, heap, requestCounts, hist, files, split, asm, locks, gather>>

\* grokker.Query fails and an entry is written all the same
CompleteGenerateFailStores(p) ==
  /\ procs[p].pc = "generate"
  /\ entries' \in CachePut(entries, TRUE, now, procs[p].req, procs[p].fileContent, NoResp)
  /\ Return(p, "LLM_FAILED", NoResp, FALSE, [procs[p] EXCEPT !.nQuery = @ + 1])
  /\ UNCHANGED <<now, cfg, heap, requestCounts, hist, files, split, asm, locks, gather>>

\* grokker.Query fails
CompleteGenerateFail(p) ==
  /\ procs[p].pc = "generate"
  /\ Return(p, "LLM_FAILED", NoResp, FALSE, [procs[p] EXCEPT !.nQuery = @ + 1])
  /\ UNCHANGED <<now, cfg, entries, heap, requestCounts, hist, files, split, asm, locks, gather>>

\* grokker.Query succeeds and the response object is built
CompleteGenerate(p) ==
  /\ procs[p].pc = "generate"
  /\ Len(heap) < MaxResp
  /\ heap' = Append(heap, NewResponse(Len(heap) + 1, procs[p].req.LLM))
  /\ Advance(p, "generate", [procs[p] EXCEPT !.nQuery = @ + 1, !.resp = Len(heap) + 1])
  /\ UNCHANGED <<now, cfg, entries, requestCounts, hist, files, split, asm, locks, gather>>

CompleteStore(p) ==
  /\ procs[p].pc = "store"
  /\ IF cfg.EnableCache
     THEN /\ entries' \in CachePut(entries, cfg.EnableCache, now, procs[p].req,
                                   procs[p].fileContent, procs[p].resp)
          /\ Return(p, "", procs[p].resp, FALSE, [procs[p] EXCEPT !.nPut = @ + 1])
     ELSE /\ entries' = entries
          /\ Return(p, "", procs[p].resp, FALSE, procs[p])
  /\ locks' = [locks EXCEPT !.cache = Unlock(@, p)]
  /\ UNCHANGED <<now, cfg, heap, requestCounts, hist, files, split, asm, gather>>

\* the source file is edited between (or during) requests
EditFile(f, content) ==
  /\ files[f] # content
  /\ files' = [files EXCEPT ![f] = content]
  /\ last' = [NoEv EXCEPT !.op = "EditFile"]
  /\ UNCHANGED <<now, cfg, entries, heap, requestCounts, hist, procs, split, asm, locks, gather>>

TickService == TickTo(MaxServiceNow)

Next ==
  \/ TickService
  \/ \E content \in Contents \cup {Missing} : EditFile(PathRA, content)
  \/ \E p \in AllProcs, req \in Reqs : CompleteValidate(p, req)
  \/ \E p \in AllProcs : CompleteRateLimit(p)
  \/ \E p \in AllProcs : CompleteReadFile(p)
  \/ \E p \in AllProcs : CompleteCacheMiss(p)
  \/ \E p \in AllProcs : CompleteCacheHit(p)
  \/ \E p \in AllProcs : CompleteReturnCached(p)
  \/ \E p \in AllProcs : CompleteGather(p)
  \/ \E p \in AllProcs : CompleteGenerateFail(p)
  \/ \E p \in AllProcs : CompleteGenerate(p)
  \/ \E p \in AllProcs : CompleteStore(p)

Init == InitService

Spec == Init /\ [][Next]_vars

(* ------------------- Complete called concurrently ----------------------- *)
\* two goroutines in Complete and one that polls GetStats
ConcProcs == {1, 2}
StatsProc == 3

InitConc ==
  /\ now = 0
  /\ cfg = DefaultConfig
  /\ entries = EmptyMap
  /\ heap = <<>>
  /\ requestCounts = EmptyMap
  /\ hist = [t \in Tenants |-> NoHist]
  /\ files = [f \in FilePaths |-> ContentX]
  /\ procs = [p \in ConcProcs |-> IdleProc]
  /\ last = NoEv
  /\ split = [content |-> <<>>, line |-> 0, col |-> 0, done |-> FALSE,
              prefix |-> <<>>, suffix |-> <<>>]
  /\ asm = NoAsm
  /\ locks = NoLocks
  /\ gather = NoGather

\* CheckLimit: r.mu.Lock()
LockLimiter(p) ==
  /\ procs[p].pc = "ratelimit"
  /\ p \notin LockHolders(locks.limiter)
  /\ CanLock(locks.limiter, p)
  /\ locks' = [locks EXCEPT !.limiter = Lock(@, p)]
  /\ last' = [NoEv EXCEPT !.op = "Lock", !.proc = p]
  /\ UNCHANGED <<now, cfg, entries, heap, requestCounts, hist, files, procs, split, asm, gather>>

\* Cache.Get: c.mu.RLock()
RLockCache(p) ==
  /\ procs[p].pc = "cacheget"
  /\ cfg.EnableCache
  /\ p \notin LockHolders(locks.cache)
  /\ CanRLock(locks.cache, p)
  /\ locks' = [locks EXCEPT !.cache = RLock(@, p)]
  /\ last' = [NoEv EXCEPT !.op = "RLock", !.proc = p]
  /\ UNCHANGED <<now, cfg, entries, heap, requestCounts, hist, files, procs, split, asm, gather>>

\* Cache.Put: c.mu.Lock()
LockCache(p) ==
  /\ procs[p].pc = "store"
  /\ cfg.EnableCache
  /\ p \notin LockHolders(locks.cache)
  /\ CanLock(locks.cache, p)
  /\ locks' = [locks EXCEPT !.cache = Lock(@, p)]
  /\ last' = [NoEv EXCEPT !.op = "Lock", !.proc = p]
  /\ UNCHANGED <<now, cfg, entries, heap, requestCounts, hist, files, procs, split, asm, gather>>

\* GetStats: r.mu.RLock()
RLockLimiter ==
  /\ StatsProc \notin LockHolders(locks.limiter)
  /\ CanRLock(locks.limiter, StatsProc)
  /\ locks' = [locks EXCEPT !.limiter = RLock(@, StatsProc)]
  /\ last' = [NoEv EXCEPT !.op = "RLock", !.proc = StatsProc]
  /\ UNCHANGED <<now, cfg, entries, heap, requestCounts, hist, files, procs, split, asm, gather>>

\* GetStats under the read lock, released as it returns
ConcGetStats(tenant) ==
  /\ StatsProc \in locks.limiter.readers
  /\ LET r == GetStats(requestCounts, tenant, now)
     IN last' = [NoEv EXCEPT !.op = "GetStats", !.proc = StatsProc, !.tenant = tenant,
                             !.ok = r.ok, !.stats = <<r.minuteCount, r.hourCount>>]
  /\ locks' = [locks EXCEPT !.limiter = Unlock(@, StatsProc)]
  /\ UNCHANGED <<now, cfg, entries, heap, requestCounts, hist, files, procs, split, asm, gather>>

\* the map operations run under their lock
ConcRateLimit(p) == locks.limiter.writer = p /\ CompleteRateLimit(p)
ConcCacheMiss(p) == p \in locks.cache.readers /\ CompleteCacheMiss(p)
ConcCacheHit(p) == p \in locks.cache.readers /\ CompleteCacheHit(p)
ConcStore(p) == locks.cache.writer = p /\ CompleteStore(p)

NextConc ==
  \/ \E content \in Contents : EditFile(PathRA, content)
  \/ \E p \in ConcProcs, req \in GoodReqs : CompleteValidate(p, req)
  \/ \E p \in ConcProcs : LockLimiter(p)
  \/ \E p \in ConcProcs : ConcRateLimit(p)
  \/ \E p \in ConcProcs : CompleteReadFile(p)
  \/ \E p \in ConcProcs : RLockCache(p)
  \/ \E p \in ConcProcs : ConcCacheMiss(p)
  \/ \E p \in ConcProcs : ConcCacheHit(p)
  \/ \E p \in ConcProcs : CompleteReturnCached(p)
  \/ \E p \in ConcProcs : CompleteGather(p)
  \/ \E p \in ConcProcs : CompleteGenerateFail(p)
  \/ \E p \in ConcProcs : CompleteGenerate(p)
  \/ \E p \in ConcProcs : LockCache(p)
  \/ \E p \in ConcProcs : ConcStore(p)
  \/ RLockLimiter
  \/ \E tenant \in Tenants : ConcGetStats(tenant)

SpecConc == InitConc /\ [][NextConc]_vars

(* ------------------------ properties: cache ----------------------------- *)
LastKey == cacheKey(last.req)
EntryAge(k) == now - entries[k].CreatedAt

\* the step is a Put of the enabled cache / a Get (last' describes the step)
IsPutStep == last'.op = "Put" /\ cfg.EnableCache
IsGetStep == last'.op = "Get"

\* C2: Get returns the stored result whenever the cache is enabled, an entry
\* for the key exists, its age is at most the TTL and the fingerprint of the
\* current content equals the stored one; the stored result is the one of
\* the latest Put under that key (a Put stores its arguments under its key,
\* and nothing but a Put of a key changes the entry of that key).
C2_GetReturnsStored ==
  [][LET k == cacheKey(last'.req)
     IN /\ (IsGetStep /\ cfg.EnableCache /\ k \in DOMAIN entries
              /\ now - entries[k].CreatedAt <= cfg.CacheTTL
              /\ entries[k].FileHash = hashContent(last'.content))
           => (last'.ok /\ last'.resp = entries[k].Response)
        /\ IsPutStep
           => (k \in DOMAIN entries' /\ entries'[k].Response = last'.resp
                 /\ entries'[k].CreatedAt = now
                 /\ entries'[k].FileHash = hashContent(last'.content))
        /\ \A j \in DOMAIN entries' :
             (j \notin DOMAIN entries \/ entries'[j] # entries[j]) => (IsPutStep /\ j = k)
    ]_vars

\* a hit on an entry aged exactly TTL that holds the second response object
C2_Witness ==
  /\ last.op = "Get" /\ last.ok
  /\ LastKey \in DOMAIN entries
  /\ EntryAge(LastKey) = cfg.CacheTTL
  /\ last.resp = entries[LastKey].Response
  /\ last.resp = 2

\* C3: if the content passed to Get differs from the content passed to the
\* Put that created the entry, Get returns absent, whatever the entry's age.
C3_ChangedContentAbsent ==
  [][LET k == cacheKey(last'.req)
     IN /\ IsPutStep => entries'[k].FileHash = hashContent(last'.content)
        /\ (IsGetStep /\ k \in DOMAIN entries)
           => \A c \in Contents :
                (entries[k].FileHash = hashContent(c) /\ c # last'.content) => ~last'.ok
    ]_vars

\* a Get with changed content on an entry that is not expired
C3_Witness ==
  /\ last.op = "Get" /\ ~last.ok /\ cfg.EnableCache
  /\ LastKey \in DOMAIN entries
  /\ EntryAge(LastKey) < cfg.CacheTTL
  /\ entries[LastKey].FileHash # hashContent(last.content)

Expired(ents, k, t) == k \in DOMAIN ents /\ t - ents[k].CreatedAt > cfg.CacheTTL

\* C4: once more than TTL has elapsed since an entry's creation, Get for its
\* key returns absent even with unchanged content, and the entry stays
\* expired until a Put for that key.
C4_ExpiredAbsent ==
  [][LET k == cacheKey(last'.req)
     IN /\ (IsGetStep /\ Expired(entries, k, now)) => ~last'.ok
        /\ \A j \in DOMAIN entries :
             (Expired(entries, j, now) /\ j \in DOMAIN entries' /\ ~Expired(entries', j, now'))
               => (IsPutStep /\ j = k)
        /\ now' >= now
    ]_vars

\* a Get with unchanged content on an expired entry
C4_Witness ==
  /\ last.op = "Get" /\ ~last.ok /\ cfg.EnableCache
  /\ Expired(entries, LastKey, now)
  /\ entries[LastKey].FileHash = hashContent(last.content)

\* the entries of ents with the smallest creation timestamp
Smallest(ents, k) == \A j \in DOMAIN ents : ents[k].CreatedAt <= ents[j].CreatedAt

\* the Put of a new key dropped exactly the entry k and nothing else
EvictedExactly(k, new) ==
  /\ DOMAIN entries' = (DOMAIN entries \ {k}) \cup {new}
  /\ \A j \in DOMAIN entries \ {k} : entries'[j] = entries[j]

\* C5 as stated: with the cache holding exactly the ceiling number of
\* entries, a Put of a further distinct key evicts exactly one entry, the
\* one with the smallest creation timestamp.
C5_EvictsAtCeiling ==
  [][LET k == cacheKey(last'.req)
     IN (IsPutStep /\ k \notin DOMAIN entries /\ Cardinality(DOMAIN entries) = CacheCeiling)
        => \E old \in DOMAIN entries : Smallest(entries, old) /\ EvictedExactly(old, k)
    ]_vars

\* C5 amended: a Put of a distinct key evicts nothing while the cache holds
\* at most the ceiling number of entries; when it holds one more than the
\* ceiling, it evicts exactly one entry, one with the smallest creation
\* timestamp, and no other; the cache never holds more than ceiling + 1.
C5_EvictsAboveCeiling ==
  [][LET k == cacheKey(last'.req)
     IN /\ (IsPutStep /\ k \notin DOMAIN entries /\ Cardinality(DOMAIN entries) <= CacheCeiling)
           => (DOMAIN entries' = DOMAIN entries \cup {k}
                 /\ \A j \in DOMAIN entries : entries'[j] = entries[j])
        /\ (IsPutStep /\ k \notin DOMAIN entries /\ Cardinality(DOMAIN entries) = CacheCeiling + 1)
           => \E old \in DOMAIN entries : Smallest(entries, old) /\ EvictedExactly(old, k)
        /\ Cardinality(DOMAIN entries') <= CacheCeiling + 1
    ]_vars

\* a Put that evicted, leaving ceiling + 1 entries of different ages
C5_Witness ==
  /\ last.op = "Put" /\ last.evicted
  /\ Cardinality(DOMAIN entries) = CacheCeiling + 1
  /\ \E j \in DOMAIN entries : entries[j].CreatedAt < now

\* C24: Cache.Get never modifies the entry map: an expired or
\* fingerprint-mismatched entry is reported absent but stays resident; an
\* entry leaves the map only in a Put that finds the map above the size
\* ceiling, and changes only in a Put of its own key.
C24_GetLeavesEntries ==
  [][LET k == cacheKey(last'.req)
     IN /\ IsGetStep => (entries' = entries /\ heap' = heap)
        /\ (IsGetStep /\ k \in DOMAIN entries /\ ~last'.ok)
             => (k \in DOMAIN entries' /\ entries'[k] = entries[k])
        /\ \A j \in DOMAIN entries :
             /\ j \notin DOMAIN entries'
                  => (IsPutStep /\ Cardinality(DOMAIN entries) > CacheCeiling)
             /\ (j \in DOMAIN entries' /\ entries'[j] # entries[j])
                  => (IsPutStep /\ j = k)
    ]_vars

\* a Get that reports absent an entry that is both expired and of another
\* fingerprint: the entry, holding the second response object, is resident
C24_Witness ==
  /\ last.op = "Get" /\ ~last.ok /\ cfg.EnableCache
  /\ Expired(entries, LastKey, now)
  /\ entries[LastKey].FileHash # hashContent(last.content)
  /\ entries[LastKey].Response = 2

\* C17: two requests that agree on tenant, path, cursor line, cursor column
\* and model selector but differ in auxiliary-file list, temperature or
\* max-token override share a cache entry: a Get for one that directly
\* follows a Put for the other (the entry is fresh) with the same content
\* returns the result that was put.
C17_AuxiliaryFieldsIgnored ==
  [][(IsGetStep /\ cfg.EnableCache /\ last.op = "Put"
        /\ Identity(last'.req) = Identity(last.req)
        /\ last'.content = last.content)
       => (last'.ok /\ last'.resp = last.resp)
    ]_vars

C32_KeysSeparateIdentities ==
  [][(IsGetStep /\ last'.ok) =>
       Identity(hist[cacheKey(last'.req)]) = Identity(last'.req)]_vars

\* a hit of a request on the entry put for a request with the same identity
\* and another auxiliary-file list
C17_Witness ==
  /\ last.op = "Get" /\ last.ok
  /\ Identity(last.putReq) = Identity(last.req)
  /\ last.putReq.ContextFiles # last.req.ContextFiles
  /\ last.putReq.ProjectID = ProjP

(* --------------------- properties: rate limiter ------------------------- *)
MaxMin == cfg.MaxRequestsPerMinute
MaxHr == cfg.MaxRequestsPerHour
IsCheckEv == last.op = "CheckLimit"
FreshCall == last.was \in {"never", "reset"}

\* the first m calls of a fresh tenant's first short window pass and the
\* later calls of that window are rejected
FirstWindowCounts ==
  /\ (IsCheckEv /\ (FreshCall \/ last.was = "first") /\ last.nth <= MaxMin) => last.err = ""
  /\ (IsCheckEv /\ last.was = "first" /\ last.nth > MaxMin) => last.err = "RATE_LIMIT"

\* C6 as stated (m <= h): a fresh tenant's first m calls within one short
\* window are accepted, call m+1 is rejected, and the first call made once
\* the short window has elapsed is accepted.
C6_WindowRollsOver ==
  MaxMin <= MaxHr =>
    /\ FirstWindowCounts
    /\ (IsCheckEv /\ last.was = "rolled") => last.err = ""

\* C6 amended: the same, the acceptance after the rollover being claimed for
\* m < h only (with m = h the long window is full after m accepted calls).
C6_WindowRollsOverStrict ==
  MaxMin <= MaxHr =>
    /\ FirstWindowCounts
    /\ (IsCheckEv /\ last.was = "rolled" /\ MaxMin < MaxHr) => last.err = ""

\* the call after the rollover of a first window that saw a rejection
C6_Witness ==
  /\ IsCheckEv /\ last.was = "rolled" /\ last.nth > MaxMin
  /\ MaxMin < MaxHr /\ last.err = ""

\* the count a window holds at time t: zero once the window has elapsed
LiveCount(counts, tenant, t, len, start, count) ==
  IF tenant \notin DOMAIN counts THEN 0
  ELSE IF t - start >= len THEN 0 ELSE count

LiveMinute(counts, tenant, t) ==
  IF tenant \notin DOMAIN counts THEN 0
  ELSE LiveCount(counts, tenant, t, Minute, counts[tenant].LastMinuteReset, counts[tenant].Minute)

LiveHour(counts, tenant, t) ==
  IF tenant \notin DOMAIN counts THEN 0
  ELSE LiveCount(counts, tenant, t, Hour, counts[tenant].LastHourReset, counts[tenant].Hour)

\* C7: a rejected CheckLimit increments neither counter: the stored counts
\* do not grow and the counts of the current windows are what they were;
\* a rejection by the long window alone leaves the short-window count as is.
C7_RejectNoIncrement ==
  [][(last'.op = "CheckLimit" /\ last'.err # "") =>
       LET t == last'.tenant
       IN /\ t \in DOMAIN requestCounts'
          /\ LiveMinute(requestCounts', t, now') = LiveMinute(requestCounts, t, now)
          /\ LiveHour(requestCounts', t, now') = LiveHour(requestCounts, t, now)
          /\ t \in DOMAIN requestCounts =>
               /\ requestCounts'[t].Minute <= requestCounts[t].Minute
               /\ requestCounts'[t].Hour <= requestCounts[t].Hour
    ]_vars

\* a rejection by the long window alone, the short window holding a count
C7_Witness ==
  /\ IsCheckEv /\ last.err = "RATE_LIMIT"
  /\ requestCounts[last.tenant].Minute < MaxMin
  /\ requestCounts[last.tenant].Minute > 0
  /\ requestCounts[last.tenant].Hour >= MaxHr

FreshCounter(t) == [Minute |-> 1, Hour |-> 1, LastMinuteReset |-> t, LastHourReset |-> t]

\* C8: Reset deletes the tenant's counter, and the next CheckLimit of the
\* tenant does what the first CheckLimit of a never-seen tenant does: it is
\* accepted, both windows start at the time of the call and both counts are 1.
C8_ResetThenCheck ==
  [][/\ last'.op = "Reset" => last'.tenant \notin DOMAIN requestCounts'
     /\ (last'.op = "CheckLimit" /\ last'.was \in {"never", "reset"})
        => (last'.tenant \notin DOMAIN requestCounts /\ last'.err = ""
              /\ requestCounts'[last'.tenant] = FreshCounter(now))
     /\ (last.op = "Reset" /\ last'.op = "CheckLimit" /\ last'.tenant = last.tenant)
        => (last'.err = "" /\ requestCounts'[last'.tenant] = FreshCounter(now))
    ]_vars

\* the first CheckLimit after a Reset of a tenant that had counts
C8_Witness ==
  /\ IsCheckEv /\ last.was = "reset" /\ now >= Minute
  /\ requestCounts[last.tenant] = FreshCounter(now)

\* C22: on each CheckLimit the short window's count is set to zero and its
\* start rebased to now if and only if now minus its start is at least the
\* short window length, and independently the same for the long window;
\* the counts change in no other way except by +1 on accept (no other
\* tenant's counter changes, and no other operation changes a counter it
\* leaves in the map), and they are never negative.
C22_WindowResetRule ==
  [][/\ last'.op = "CheckLimit"
          => LET t == last'.tenant
                 c0 == IF t \in DOMAIN requestCounts THEN requestCounts[t]
                       ELSE [Minute |-> 0, Hour |-> 0,
                             LastMinuteReset |-> now, LastHourReset |-> now]
                 c == requestCounts'[t]
                 minuteElapsed == now - c0.LastMinuteReset >= Minute
                 hourElapsed == now - c0.LastHourReset >= Hour
                 inc == IF last'.err = "" THEN 1 ELSE 0
             IN /\ c.Minute = (IF minuteElapsed THEN 0 ELSE c0.Minute) + inc
                /\ c.LastMinuteReset = (IF minuteElapsed THEN now ELSE c0.LastMinuteReset)
                /\ c.Hour = (IF hourElapsed THEN 0 ELSE c0.Hour) + inc
                /\ c.LastHourReset = (IF hourElapsed THEN now ELSE c0.LastHourReset)
                /\ \A u \in DOMAIN requestCounts \ {t} :
                     u \in DOMAIN requestCounts' /\ requestCounts'[u] = requestCounts[u]
     /\ last'.op # "CheckLimit"
          => \A u \in DOMAIN requestCounts' :
               u \in DOMAIN requestCounts /\ requestCounts'[u] = requestCounts[u]
     /\ \A u \in DOMAIN requestCounts' :
          requestCounts'[u].Minute >= 0 /\ requestCounts'[u].Hour >= 0
    ]_vars

\* a CheckLimit that reset the short window and not the long one: it is the
\* first call of the new short window and the long window keeps its count
C22_Witness ==
  /\ IsCheckEv /\ last.err = ""
  /\ requestCounts[last.tenant].LastMinuteReset = now
  /\ requestCounts[last.tenant].LastHourReset < now
  /\ requestCounts[last.tenant].Minute = 1
  /\ requestCounts[last.tenant].Hour >= 2

\* the counter CheckLimit compares with the thresholds at time t: the stored
\* (or fresh) counter after the two window resets
ComparedCounter(counts, tenant, t) ==
  ResetHourWindow(ResetMinuteWindow(LookupCount(counts, tenant, t), t), t)

\* C16: GetStats never changes the limiter state (no counter, window start
\* or map entry is created or modified); for each window it reports the
\* stored count if the time elapsed since the window's start is less than
\* the window length and zero otherwise, which are exactly the counts a
\* CheckLimit at that instant would compare against the thresholds.
C16_StatsReadOnly ==
  [][last'.op = "GetStats"
       => LET t == last'.tenant
          IN /\ requestCounts' = requestCounts
             /\ now' = now
             /\ last'.ok = (t \in DOMAIN requestCounts)
             /\ last'.stats = <<LiveMinute(requestCounts, t, now),
                                LiveHour(requestCounts, t, now)>>
             /\ last'.stats = <<ComparedCounter(requestCounts, t, now).Minute,
                                ComparedCounter(requestCounts, t, now).Hour>>
    ]_vars

\* stats read at the instant the short window has elapsed: the stored count
\* of that window is positive and reported as zero, the long window still counts
C16_Witness ==
  /\ last.op = "GetStats" /\ last.ok
  /\ last.tenant \in DOMAIN requestCounts
  /\ now - requestCounts[last.tenant].LastMinuteReset = Minute
  /\ requestCounts[last.tenant].Minute > 0
  /\ last.stats[1] = 0
  /\ last.stats[2] > 0

\* C35: with fixed thresholds, the short-window count of every tenant is
\* between 0 and the short-window threshold and its long-window count
\* between 0 and the long-window threshold, in every reachable state; and a
\* CheckLimit or a Reset for one tenant leaves the counter of every other
\* tenant as it was: present or absent, counts and window starts.
C35_CountsBoundedAndIsolated ==
  /\ [](\A t \in DOMAIN requestCounts :
          /\ 0 <= requestCounts[t].Minute
          /\ requestCounts[t].Minute <= cfg.MaxRequestsPerMinute
          /\ 0 <= requestCounts[t].Hour
          /\ requestCounts[t].Hour <= cfg.MaxRequestsPerHour)
  /\ [][last'.op \in {"CheckLimit", "Reset"} =>
         \A other \in Tenants \ {last'.tenant} :
           /\ (other \in DOMAIN requestCounts') <=> (other \in DOMAIN requestCounts)
           /\ other \in DOMAIN requestCounts =>
                requestCounts'[other] = requestCounts[other]]_vars

\* a tenant has been reset while another tenant's counter stands at both
\* thresholds
C35_Witness ==
  /\ last.op = "Reset"
  /\ last.tenant \notin DOMAIN requestCounts
  /\ \E other \in DOMAIN requestCounts :
       /\ requestCounts[other].Minute = cfg.MaxRequestsPerMinute
       /\ requestCounts[other].Hour = cfg.MaxRequestsPerHour
       /\ requestCounts[other].LastMinuteReset # requestCounts[other].LastHourReset

\* the calls of a tenant accepted at the instants from a to b
RECURSIVE AcceptedIn(_, _, _)
AcceptedIn(tenant, a, b) ==
  IF a > b THEN 0 ELSE hist[tenant][a] + AcceptedIn(tenant, a + 1, b)

\* C34: with fixed thresholds and no reset, in every interval no longer
\* than the short window a tenant has at most twice the short-window
\* threshold of accepted calls, and in every interval no longer than the
\* long window at most twice the long-window threshold.
C34_SoftWindowBound ==
  \A tenant \in WindowTenants : \A a \in 0..now : \A b \in a..now :
    /\ b - a <= Minute => AcceptedIn(tenant, a, b) <= 2 * cfg.MaxRequestsPerMinute
    /\ b - a <= Hour => AcceptedIn(tenant, a, b) <= 2 * cfg.MaxRequestsPerHour

\* a burst over a window boundary: an interval no longer than the short
\* window holds twice the short-window threshold of accepted calls, and one
\* no longer than the long window more than the long-window threshold
C34_Witness ==
  \E tenant \in WindowTenants : \E a \in 0..now : \E b \in a..now :
    /\ b - a <= Minute
    /\ AcceptedIn(tenant, a, b) = 2 * cfg.MaxRequestsPerMinute
    /\ \E c \in 0..now : \E d \in c..now :
         d - c <= Hour /\ AcceptedIn(tenant, c, d) > cfg.MaxRequestsPerHour

(* ----------------------- properties: Complete --------------------------- *)
IsReturn == last.op = "Return"

\* the response objects Complete has handed to a caller on a cache miss: all
\* but the one a call still holds between generation and the cache write
ReturnedFromMiss ==
  {r \in 1..Len(heap) :
     \A p \in AllProcs : ~(procs[p].pc = "store" /\ procs[p].resp = r)}

\* C12: a result is immutable once produced and the object a cache-miss
\* Complete returned is not shared with the cache: it keeps its cache-hit
\* flag false, and its other fields, whatever Complete calls follow, later
\* cache hits on its key included.
C12_MissResultImmutable ==
  \A r \in ReturnedFromMiss :
     /\ ~heap[r].CachedResult
     /\ heap[r].Completion = r

C13_GenerateFailureWritesNothing ==
  [][(last'.op = "Return" /\ last'.err = "LLM_FAILED")
       => /\ last'.nQuery = 1
          /\ last'.nPut = 0
          /\ last'.resp = NoResp
          /\ entries' = entries
          /\ entries' = last'.ents0
    ]_vars

\* a generation failure of a call that found the cache populated
C13_Witness ==
  /\ IsReturn /\ last.err = "LLM_FAILED"
  /\ last.nQuery = 1
  /\ entries # EmptyMap
  /\ entries = last.ents0

\* C14: when the rate limiter rejects a request, Complete aborts before any
\* context is gathered: up to and including the rejection the call has read
\* no file through the provider, has not called the downstream generator
\* and has not written the cache, and the rejection ends the call.
C14_RejectedBeforeContext ==
  [][/\ \A p \in AllProcs :
          procs[p].pc = "ratelimit"
            => (procs[p].nRead = 0 /\ procs[p].nQuery = 0 /\ procs[p].nPut = 0)
     /\ (last'.op = "Return" /\ last'.err = "RATE_LIMIT")
          => /\ last'.nRead = 0 /\ last'.nQuery = 0 /\ last'.nPut = 0
             /\ entries' = entries /\ heap' = heap
             /\ procs'[last'.proc].pc = "idle"
    ]_vars

\* a rejection of a request for which the cache holds an entry
C14_Witness ==
  /\ IsReturn /\ last.err = "RATE_LIMIT"
  /\ last.nRead = 0
  /\ cacheKey(last.req) \in DOMAIN entries

\* the error codes of errors.go
CodeValidation == "VALIDATION_ERROR"
CodeRateLimit == "RATE_LIMIT"
CodeFileAccess == "FILE_ACCESS"
CodeProjectAccess == "PROJECT_ACCESS"
CodeContextError == "CONTEXT_ERROR"
CodeLLMError == "LLM_ERROR"
CodeCacheError == "CACHE_ERROR"
CodeTimeout == "TIMEOUT"
CodeInternal == "INTERNAL_ERROR"
ErrorCodes ==
  {CodeValidation, CodeRateLimit, CodeFileAccess, CodeProjectAccess, CodeContextError,
   CodeLLMError, CodeCacheError, CodeTimeout, CodeInternal}

\* the value behind each error Complete returns: what errors.As finds in its
\* chain (a *CompletionError with a code, or none) and how it was built
PlainError(how) == [isCompletionError |-> FALSE, code |-> "", how |-> how]
NewCompletionError(code) == [isCompletionError |-> TRUE, code |-> code, how |-> "CompletionError"]
ErrorOf(err) ==
  CASE err = "INVALID_REQUEST" -> PlainError("errors.New")
    [] err = "NOT_FOUND" -> PlainError("provider")
    [] err = "FILE_NOT_AUTHORIZED" -> PlainError("fmt.Errorf")
    [] err = "RATE_LIMIT" -> NewCompletionError(CodeRateLimit)
    [] err = "READ_FAILED" -> PlainError("fmt.Errorf")
    [] err = "GATHER_FAILED" -> PlainError("fmt.Errorf")
    [] err = "LLM_FAILED" -> PlainError("fmt.Errorf")
    [] OTHER -> PlainError("none")

\* C15: every error Complete returns (validation, unauthorized resource,
\* rate limit, context assembly, generation failure) is a CompletionError
\* with a code of the fixed code set; a generation failure carries the
\* LLM-error code and an assembly failure the context-error code.
C15_ErrorsCarryCodes ==
  (IsReturn /\ last.err # "") =>
     /\ ErrorOf(last.err).isCompletionError
     /\ ErrorOf(last.err).code \in ErrorCodes
     /\ last.err = "LLM_FAILED" => ErrorOf(last.err).code = CodeLLMError
     /\ last.err = "GATHER_FAILED" => ErrorOf(last.err).code = CodeContextError

\* C18: on a cache hit Complete never invokes the downstream generator; the
\* generator is invoked only by a call whose cache lookup missed (or whose
\* lookup was skipped because the cache is switched off), and once at most.
C18_HitSkipsGenerator ==
  /\ (IsReturn /\ last.cacheHit) => (last.nQuery = 0 /\ last.nGet = 1)
  /\ (IsReturn /\ last.nQuery > 0) => (~last.cacheHit /\ last.nQuery = 1)
  /\ \A p \in AllProcs :
       /\ procs[p].pc = "cachehit" => procs[p].nQuery = 0
       /\ procs[p].pc = "generate"
            => /\ procs[p].resp = NoResp
               /\ procs[p].nQuery = 0
               /\ procs[p].nGet = (IF cfg.EnableCache THEN 1 ELSE 0)
       /\ procs[p].nQuery > 0 => procs[p].pc = "store"

\* a cache hit on the second response object: no generator call, one file read
C18_Witness ==
  /\ IsReturn /\ last.cacheHit
  /\ last.nQuery = 0 /\ last.nRead = 1
  /\ last.resp = 2

\* C9: a request whose path is not authorized, or whose tenant or path is
\* empty, is rejected by validation before the rate limiter or the cache is
\* called: it never leaves the validation stage, no window counter is
\* created or changed and the cache is neither read nor written.
C9_RejectedBeforeLimiterAndCache ==
  [][/\ \A p \in AllProcs : procs'[p].pc # "idle" => procs'[p].req \notin BadReqs
     /\ (last'.op = "Return" /\ last'.req \in BadReqs)
        => /\ last'.err \in {"INVALID_REQUEST", "FILE_NOT_AUTHORIZED", "NOT_FOUND"}
           /\ last'.nLimit = 0 /\ last'.nGet = 0 /\ last'.nPut = 0
           /\ requestCounts' = requestCounts
           /\ entries' = entries
           /\ heap' = heap
    ]_vars

\* an unauthorized request rejected while counters and cache entries exist
C9_Witness ==
  /\ IsReturn /\ last.err = "FILE_NOT_AUTHORIZED"
  /\ last.req \in BadReqs
  /\ DOMAIN entries # {}
  /\ DOMAIN requestCounts # {}

\* the request names a tenant and a path, the provider has the tenant's
\* authorized list, and the path, resolved against the project root and
\* normalized, is an entry of the list resolved and normalized the same way
Authorized(req) ==
  /\ req.ProjectID # <<>>
  /\ req.FilePath # <<>>
  /\ GetProjectAuthorizedFiles(req.ProjectID).err = ""
  /\ LET root == GetProjectBaseDir(req.ProjectID).dir
         list == GetProjectAuthorizedFiles(req.ProjectID).list
     IN Clean(resolveFilePath(root, req.FilePath))
          \in {Clean(resolveFilePath(root, list[i])) : i \in 1..Len(list)}

\* C31: a call of Complete passes validation exactly when its request is
\* authorized: tenant and path are not empty, the provider returns the
\* tenant's authorized list, and the normalized resolved path is in it;
\* otherwise the call returns an error at once.
C31_ValidationAcceptsAuthorized ==
  [][\A p \in AllProcs :
       (procs[p].pc = "idle" /\ last'.proc = p /\ last'.op \in {"validate", "Return"}) =>
         /\ (last'.op = "validate") <=> Authorized(last'.req)
         /\ (last'.op = "Return") => (last'.err # "" /\ procs'[p].pc = "idle")]_vars

\* a path that is not written as in the authorized list has passed validation
C31_Witness ==
  /\ last.op = "validate"
  /\ last.req.FilePath = <<".", "/", "a">>
  /\ \A i \in 1..Len(GetProjectAuthorizedFiles(last.req.ProjectID).list) :
       GetProjectAuthorizedFiles(last.req.ProjectID).list[i] # last.req.FilePath

(* ----------------------- properties: locking ---------------------------- *)
Held(p) == p \in LockHolders(locks.cache) \/ p \in LockHolders(locks.limiter)

\* C20: neither the cache lock nor the rate-limiter lock is held while the
\* downstream generation call or a provider file read is in progress: a
\* process holds a lock only inside the map operation it took it for, one
\* lock at a time, so a request blocked in generation keeps no other
\* request's Cache.Get, Cache.Put, CheckLimit or GetStats waiting.
C20_LocksNotHeldAcrossIO ==
  /\ \A p \in ConcProcs :
       /\ procs[p].pc \in {"readfile", "gather", "generate"} => ~Held(p)
       /\ p \in LockHolders(locks.limiter) => procs[p].pc = "ratelimit"
       /\ p \in LockHolders(locks.cache) => procs[p].pc \in {"cacheget", "store"}
       /\ ~(p \in LockHolders(locks.cache) /\ p \in LockHolders(locks.limiter))
  /\ StatsProc \notin LockHolders(locks.cache)

\* one request is in generation while the other writes the cache under the
\* write lock and GetStats reads the limiter under the read lock
C20_Witness ==
  \E p \in ConcProcs, q \in ConcProcs :
    /\ p # q
    /\ procs[p].pc = "generate"
    /\ locks.cache.writer = q
    /\ StatsProc \in locks.limiter.readers

\* C23: racing writes are last-write-wins.  When two Complete calls for one
\* cache key run concurrently and both miss, each Put runs alone under the
\* write lock and leaves under the key an entry made of its own result, its
\* own content fingerprint and its own time, so after both have finished the
\* map holds for that key the entry of whichever Put ran last, never a
\* mixture; no other step changes the map.
C23_LastWriteWins ==
  [][/\ (last'.op = "Return" /\ last'.nPut = 1)
          => LET p == last'.proc
                 k == cacheKey(procs[p].req)
             IN /\ locks.cache.writer = p /\ locks.cache.readers = {}
                /\ k \in DOMAIN entries'
                /\ entries'[k] = [Response |-> procs[p].resp, CreatedAt |-> now,
                                  FileHash |-> hashContent(procs[p].fileContent)]
                /\ last'.resp = procs[p].resp
     /\ ~(last'.op = "Return" /\ last'.nPut = 1) => entries' = entries
    ]_vars

\* two calls that both started on an empty cache have both missed and both
\* put under one key, with different contents read; the entry is that of the
\* call that finished last, which is the one that generated first
C23_Witness ==
  /\ IsReturn /\ last.nPut = 1 /\ last.ents0 = EmptyMap
  /\ \A p \in ConcProcs : procs[p].pc = "idle"
  /\ Len(heap) = 2
  /\ DOMAIN entries = {cacheKey(last.req)}
  /\ entries[cacheKey(last.req)].Response = 1
  /\ last.resp = 1
  /\ entries[cacheKey(last.req)].FileHash = hashContent(ContentY)
  /\ files[PathRA] = ContentX

\* the calls for tenant t that have returned nil
RECURSIVE SumAccepted(_, _)
SumAccepted(ps, t) ==
  IF ps = {} THEN 0
  ELSE LET p == CHOOSE x \in ps : TRUE
       IN procs[p].accepted[t] + SumAccepted(ps \ {p}, t)

Min(a, b) == IF a < b THEN a ELSE b

\* C21: for any interleaving of concurrent CheckLimit calls for one tenant
\* inside one short and one long window, the number of accepted calls never
\* exceeds min(per-minute threshold, per-hour threshold), and each accepted
\* call has raised both counters by exactly one: both counters equal the
\* number of accepted calls (no lost and no double increment).
C21_AtomicCheckLimit ==
  \A t \in Tenants :
    LET acc == SumAccepted(RaceProcs, t)
    IN /\ acc <= Min(cfg.MaxRequestsPerMinute, cfg.MaxRequestsPerHour)
       /\ t \notin DOMAIN requestCounts => acc = 0
       /\ t \in DOMAIN requestCounts
            => (requestCounts[t].Minute = acc /\ requestCounts[t].Hour = acc)

\* both goroutines have had a call accepted for the tenant, and a further
\* call has been rejected while the other goroutine is between two calls
C21_Witness ==
  /\ last.op = "CheckLimit" /\ last.err = "RATE_LIMIT"
  /\ \A p \in RaceProcs : procs[p].accepted[last.tenant] >= 1
  /\ \A p \in RaceProcs : procs[p].pc = "idle"

(* ------------------ properties: GatherContext --------------------------- *)
\* the directories from dir upward, innermost first, up to the project root
\* or a directory that is its own parent
RECURSIVE Upward(_, _)
Upward(dir, baseDir) ==
  IF WalkBreaks(dir, Dir(dir), baseDir) THEN <<dir>>
  ELSE <<dir>> \o Upward(Dir(dir), baseDir)

Readable(path) == ReadFile(files, path).err = ""

\* the contents of the readable instructions files of the directories dirs
RECURSIVE FoundIn(_)
FoundIn(dirs) ==
  IF dirs = <<>> THEN <<>>
  ELSE LET r == ReadFile(files, PathJoin(Head(dirs), AgentsFile))
       IN (IF r.err = "" THEN <<r.content>> ELSE <<>>) \o FoundIn(Tail(dirs))

\* the directory of the target resource, the file Complete reads
TargetDir == Dir(resolveFilePath(gather.baseDir, gather.target))

\* C27: when the walk has ended, the instructional text is the contents of
\* the readable instructions files of the directories from the directory of
\* the target resource upward, innermost first, joined by the delimiter; it
\* is empty when there is none.
C27_WalkContent ==
  gather.stage = "walked" =>
    gather.agents = JoinWith(FoundIn(Upward(TargetDir, gather.baseDir)), Delimiter)

\* the walk has ended where the loop is left: at the project root or at a
\* directory that is its own parent
StoppedAtRoot ==
  LET stop == gather.visited[Len(gather.visited)]
  IN stop = gather.baseDir \/ Dir(stop) = stop

NoRepeat(seq) == \A i, j \in 1..Len(seq) : seq[i] = seq[j] => i = j

\* C28: the walk, once begun, ends, for every root and every target; it has
\* visited no directory twice, each visited directory is the parent of the
\* one before, and it stops at the project root or at a directory that is
\* its own parent (the filesystem root, or "." for a relative path).
C28_WalkTerminates ==
  /\ (gather.stage = "walk") ~> (gather.stage = "walked")
  /\ [](/\ NoRepeat(gather.visited)
        /\ \A i \in 2..Len(gather.visited) :
              gather.visited[i] = Dir(gather.visited[i - 1])
        /\ gather.stage = "walked" => StoppedAtRoot)

\* a walk of several directories has ended, above a root that is not in
\* normalized form, for an absolute target
C28_Witness ==
  /\ gather.stage = "walked"
  /\ Len(gather.visited) >= 3
  /\ gather.baseDir # Clean(gather.baseDir)
  /\ IsAbs(gather.target)

\* dir is the directory root or lies below it
AtOrBelow(dir, root) ==
  LET r == Clean(root)
  IN \/ dir = r
     \/ r = <<"/">> /\ IsAbs(dir)
     \/ /\ Len(dir) > Len(r) + 1
        /\ SubSeq(dir, 1, Len(r)) = r
        /\ dir[Len(r) + 1] = "/"
        /\ DotDot \notin {<<dir[i], dir[i + 1]>> : i \in 1..(Len(dir) - 1)}

\* the targets of Targets a provider authorizes: relative, inside the root
AuthorizedTargets == {FileA, <<"d", "/", "a">>}

\* C29: for an authorized target, every directory in which the walk has
\* tried to read an instructions file is the project root or lies below it.
C29_WalkStaysInRoot ==
  gather.target \in AuthorizedTargets =>
    \A i \in 1..Len(gather.visited) : AtOrBelow(gather.visited[i], gather.baseDir)

\* the auxiliary files of the request that can be read, in request order
ReadableAux ==
  SelectSeq(gather.ContextFiles,
            LAMBDA f : Readable(resolveFilePath(gather.baseDir, f)))

\* C30: GatherContext fails exactly when the provider cannot report the
\* project root. Otherwise it returns a context: without instructions when
\* no instructions file was found, without discussion when the discussion
\* file cannot be resolved or read, and with the auxiliary files that can be
\* read, in request order.
C30_OnlyRootFails ==
  /\ gather.stage = "failed" => gather.baseErr # "" /\ gather.err = gather.baseErr
  /\ gather.stage \in {"walk", "walked", "discussed", "done"} =>
       gather.baseErr = "" /\ gather.err = ""
  /\ gather.stage = "done" =>
       /\ gather.instructions = <<>> => gather.agents = <<>>
       /\ (gather.discussionErr # "" \/ ~Readable(gather.discussionFile)) =>
            gather.discussion = <<>>
       /\ Len(gather.additional) = Len(ReadableAux)
       /\ \A i \in 1..Len(ReadableAux) :
            /\ gather.additional[i].Path = ReadableAux[i]
            /\ gather.additional[i].Content =
                 ReadFile(files, resolveFilePath(gather.baseDir, ReadableAux[i])).content

\* a context was returned although nothing but the project root was found:
\* no instructions file, no discussion file, one auxiliary file of two
C30_Witness ==
  /\ gather.stage = "done"
  /\ gather.instructions = <<>>
  /\ gather.discussionErr # ""
  /\ Len(gather.ContextFiles) = 2
  /\ Len(gather.additional) = 1

====
